---- MODULE Spec2Model ----
(***************************************************************************)
(* State-machine model of the zustic query layer: the core fetch executor  *)
(* coreFn (src/src/index.ts), the pipeline queryFn (src/src/query/query.ts)*)
(* the endpoint hooks and the utilities built by createApi                 *)
(* (src/src/query/index.ts), and tagMatches (src/src/query/utils.ts).      *)
(*                                                                         *)
(* JavaScript values are records tagged with their typeof in field t.      *)
(* Every `await` of the source is a step boundary: the code between two    *)
(* awaits runs inside one action.                                          *)
(***************************************************************************)
EXTENDS Integers, Sequences, FiniteSets, TLC

VARIABLES
  now,      \* Date.now()
  defs,     \* the endpoint definitions passed to createApi
  stors,    \* keys of the stores created so far (stors map, mutationStore)
  store,    \* the state object of every store
  dep,      \* effect dependency of the previous query hook call, or "none"
  runs,     \* the pipeline runs in flight, in the order they started
  nruns,    \* number of runs started so far
  last,     \* history: the run that returned in the latest step, if any
  settled,  \* history: per store, what its most recent settle wrote
  actions,  \* cache keys registered in the actions map, in insertion order
  hooks,    \* names of the accessors in the hooks object of createApi
  api,      \* property names of the object createApi returned
  count,    \* state of the store the application creates with middlewares
  op        \* history: the API function the latest step called, if any

vars == <<now, defs, stors, store, dep, runs, nruns, last, settled, actions, hooks, api, count, op>>

(* ------------------------------ bounds --------------------------------- *)
MaxTime == 3
MaxRuns == 2
\* runs the API utilities, or further calls of the mutation trigger, may start
\* on top of MaxRuns
MaxRefetches == 1
\* longest middleware list passed to createApi
MaxMiddlewares == 2
\* longest middleware list passed to create
MaxStoreMiddlewares == 3
\* largest count the application's store is set to
MaxCount == 2

(* ------------------------- program constants --------------------------- *)
\* cacheTimeout passed to createApi (milliseconds of the model clock)
CacheTimeout == 1
\* cashTimeout the mutation hook passes to queryFn
MutationTimeout == 0
\* cashExp of a freshly created store, and the value invalidation writes
InitialCashExp == 0
\* count of the application's store returned by its initializer
InitialCount == 0

(* --------------------------- JavaScript values ------------------------- *)
Null == [t |-> "null"]
Undef == [t |-> "undefined"]
Num(n) == [t |-> "number", v |-> n]
Str(s) == [t |-> "string", v |-> s]
Obj(i) == [t |-> "object", id |-> i]
EmptyObj == [t |-> "object"]
Bool(b) == [t |-> "boolean", v |-> b]
Err(m) == [t |-> "error", v |-> m]

\* JavaScript truthiness, as used by `if(d)`, `arg || {}`, `if(data)`
Truthy(v) ==
  CASE v.t = "null" -> FALSE
    [] v.t = "undefined" -> FALSE
    [] v.t = "number" -> v.v # 0
    [] v.t = "string" -> v.v # ""
    [] v.t = "boolean" -> v.v
    [] OTHER -> TRUE

\* JSON.stringify on the values that occur as endpoint arguments
JSONstringify(v) ==
  CASE v.t = "null" -> "null"
    [] v.t = "number" -> ToString(v.v)
    [] v.t = "string" -> "\"" \o v.v \o "\""
    [] v.t = "boolean" -> IF v.v THEN "true" ELSE "false"
    [] v.t = "object" -> IF "id" \in DOMAIN v
                           THEN "{\"id\":" \o ToString(v.id) \o "}"
                           ELSE "{}"
    [] OTHER -> "undefined"

\* JSON.stringify(arg || {}): the serialization coreFn and useEffect compare
SerArg(arg) == JSONstringify(IF Truthy(arg) THEN arg ELSE EmptyObj)

\* mutant: the key is built with arg || {}
createCacheKeyFalsy(endpoint, arg) == endpoint \o "__" \o SerArg(arg)

\* createCacheKey: `${endpoint}__${JSON.stringify(arg ?? {})}`
createCacheKey(endpoint, arg) ==
  endpoint \o "__" \o JSONstringify(IF arg.t \in {"null", "undefined"} THEN EmptyObj ELSE arg)

(* --------------------------- endpoint definitions ---------------------- *)
QName == "getUser"
MName == "createPost"

\* capitalize of query/utils.ts, on the endpoint keys of the model
capitalize(str) ==
  CASE str = "getUser" -> "GetUser"
    [] str = "createPost" -> "CreatePost"
    [] str = "getProfile" -> "GetProfile"
    [] str = "updateProfile" -> "UpdateProfile"
    [] OTHER -> str

\* `use${capitalize(key)}` + (def.type === 'query' ? 'Query' : 'Mutation')
HookName(key, type) ==
  "use" \o capitalize(key) \o (IF type = "query" THEN "Query" ELSE "Mutation")

\* the properties of the object createApi returns next to the accessors
ApiMembers == {"utils", "injectEndpoints"}

\* an endpoint definition: which optional members of the config are present
Def(query, queryFnc, tH, tB, tR, oS, tE, oE, pT) ==
  [queryFn |-> query, queryFnc |-> queryFnc, transformHeader |-> tH,
   transformBody |-> tB, transformResponse |-> tR, onSuccess |-> oS,
   transformError |-> tE, onError |-> oE, providesTags |-> pT]

PlainDef == Def(TRUE, FALSE, FALSE, FALSE, FALSE, FALSE, FALSE, FALSE, "static")
TransformDef == Def(TRUE, FALSE, FALSE, FALSE, TRUE, FALSE, TRUE, FALSE, "none")
CallbackDef == Def(TRUE, FALSE, TRUE, TRUE, FALSE, TRUE, FALSE, TRUE, "none")
CustomDef == Def(FALSE, TRUE, FALSE, FALSE, FALSE, FALSE, FALSE, FALSE, "none")
\* the mutation of the example application: transformBody, and an onSuccess
\* that calls api.utils.invalidateTags(['users'])
InvalidatingDef == Def(TRUE, FALSE, FALSE, TRUE, FALSE, TRUE, FALSE, FALSE, "none")
OnSuccessTags == <<Str("users")>>
\* providesTags: (data) => [{type: 'users', id: data}]
TaggedDef == Def(TRUE, FALSE, FALSE, FALSE, FALSE, FALSE, FALSE, FALSE, "function")

\* providesTags as a function, next to a transformResponse
TaggedTransformDef == Def(TRUE, FALSE, FALSE, FALSE, TRUE, FALSE, FALSE, FALSE, "function")

QueryDefs == {PlainDef, TransformDef, CallbackDef, CustomDef}
MutationDefs == {PlainDef, TransformDef, CallbackDef}

\* the hooks of the modelled endpoints
transformResponse(currData, preData) == [t |-> "object", xf |-> currData]
transformError(currError, preError) == [t |-> "object", xe |-> currError]
StaticTags == <<Str("users")>>
\* a JavaScript array
Arr(items) == [t |-> "array", items |-> items]

\* arguments the application passes to the query hook and to the mutation
QArgs == {Obj(1), Obj(2)}
EntryArgs == {Obj(1)}
MArgs == {Obj(1), Obj(2)}
\* arguments a mounted component passes to the query hook from one render to
\* the next: absent, 0, false, '' and {id: 1}
HookArgs == {Undef, Num(0), Bool(FALSE), Str(""), Obj(1)}

\* what the transport (or the custom query function) may resolve the call of
\* run number n with: fresh data, or an error
Responses(n) ==
  {[data |-> Num(n), error |-> Undef], [data |-> Undef, error |-> Err("E")]}

(* --------------------------------- tags -------------------------------- *)
\* a === b on primitive values
StrictEq(a, b) == a.t = b.t /\ a = b

\* a {type, id?} tag object; id is Undef when the property is absent
TagObj(type, id) == [t |-> "object", type |-> type, id |-> id]

\* tagMatches of query/utils.ts
tagMatches(invalidTag, queryTag) ==
  LET isInvalidTagString == invalidTag.t = "string"
      isQueryTagString == queryTag.t = "string"
  IN IF isInvalidTagString /\ isQueryTagString
     THEN invalidTag.v = queryTag.v
     ELSE IF ~isInvalidTagString /\ ~isQueryTagString
          THEN LET typeMatch == invalidTag.type = queryTag.type
                   idMatch == ~Truthy(invalidTag.id) \/ StrictEq(invalidTag.id, queryTag.id)
               IN typeMatch /\ idMatch
          ELSE FALSE

\* the tags tagMatches is applied to: strings and {type, id?} objects whose
\* id is absent, 0, 1, "" or "1"
TagTypes == {"users", "posts"}
TagIds == {Undef, Num(0), Num(1), Str(""), Str("1")}
Tags == {Str(s) : s \in TagTypes} \cup {TagObj(ty, id) : ty \in TagTypes, id \in TagIds}

(* ------------------------------ stores --------------------------------- *)
QKeys == {createCacheKey(QName, a) : a \in QArgs \cup HookArgs}
MKey == MName
Entries == QKeys \cup {MKey}

\* the state object returned by the initializer passed to create().  (The
\* mutation store's initializer lists neither isFetching nor tags: both read
\* as absent, i.e. falsy, until a run writes them.)
InitialState ==
  [data |-> Null, isLoading |-> FALSE, isError |-> FALSE, isFetching |-> FALSE,
   isSuccess |-> FALSE, error |-> Null, arg |-> Null, cashExp |-> InitialCashExp,
   tags |-> Undef]

DefOf(e) == IF e = MKey THEN defs.m ELSE defs.q

(* -------------------------------- coreFn ------------------------------- *)
\* A pair p = [st, r]: st is the store state of the run's entry, r the run's
\* locals.  Every operator below is the synchronous code from one point of
\* coreFn up to the next await (or to the return).

\* providesTags evaluation of the success branch
ComputeTags(d, data) ==
  CASE d.providesTags = "static" -> Arr(StaticTags)
    [] d.providesTags = "function" -> Arr(<<[t |-> "object", type |-> "users", id |-> data]>>)
    [] OTHER -> Null

\* mutants of the cache decision: strict expiry comparison; no expiry check
IsCashAvilableStrict(isRefetch, storedArg, arg, cashTime, t) ==
  IF isRefetch THEN FALSE
  ELSE IF SerArg(storedArg) # SerArg(arg) THEN FALSE
  ELSE cashTime > t

IsCashAvilableNoExpiry(isRefetch, storedArg, arg, cashTime, t) ==
  IF isRefetch THEN FALSE
  ELSE SerArg(storedArg) = SerArg(arg)

\* the cache decision of coreFn
IsCashAvilable(isRefetch, storedArg, arg, cashTime, t) ==
  IF isRefetch THEN FALSE
  ELSE IF SerArg(storedArg) # SerArg(arg) THEN FALSE
  ELSE cashTime >= t

\* catch(e): the error write of the catch block
Catch(p, e, t) ==
  [st |-> [p.st EXCEPT !.isLoading = FALSE, !.isSuccess = FALSE, !.isFetching = FALSE,
                       !.isError = TRUE, !.error = e, !.arg = p.r.arg],
   r |-> [p.r EXCEPT !.pc = "done", !.result = [data |-> Undef, error |-> e]]]

\* mutant of the settle: isFetching is left as it was
SettleKeepFetching(p, d, t) ==
  IF Truthy(p.r.data)
  THEN [st |-> [p.st EXCEPT !.data = p.r.data, !.isSuccess = TRUE, !.isLoading = FALSE,
                            !.cashExp = IF p.r.isCashAvilable THEN p.r.cashTime
                                        ELSE t + p.r.cashTimeout,
                            !.arg = p.r.arg, !.tags = ComputeTags(d, p.r.data)],
        r |-> [p.r EXCEPT !.pc = "done", !.result = [data |-> p.r.data, error |-> Undef]]]
  ELSE [st |-> [p.st EXCEPT !.isLoading = FALSE, !.isSuccess = FALSE,
                            !.isError = TRUE, !.error = p.r.error, !.arg = p.r.arg],
        r |-> [p.r EXCEPT !.pc = "done", !.result = [data |-> Undef, error |-> p.r.error]]]

\* mutant of the settle: the error write clears the tags
SettleClearsTags(p, d, t) ==
  IF Truthy(p.r.data)
  THEN [st |-> [p.st EXCEPT !.data = p.r.data, !.isSuccess = TRUE, !.isLoading = FALSE,
                            !.isFetching = FALSE,
                            !.cashExp = IF p.r.isCashAvilable THEN p.r.cashTime
                                        ELSE t + p.r.cashTimeout,
                            !.arg = p.r.arg, !.tags = ComputeTags(d, p.r.data)],
        r |-> [p.r EXCEPT !.pc = "done", !.result = [data |-> p.r.data, error |-> Undef]]]
  ELSE [st |-> [p.st EXCEPT !.isLoading = FALSE, !.isSuccess = FALSE, !.isFetching = FALSE,
                            !.isError = TRUE, !.error = p.r.error, !.arg = p.r.arg,
                            !.tags = Null],
        r |-> [p.r EXCEPT !.pc = "done", !.result = [data |-> Undef, error |-> p.r.error]]]

\* mutant of the settle: data and error already in the entry are kept
SettleFirstWins(p, d, t) ==
  IF Truthy(p.r.data)
  THEN [st |-> [p.st EXCEPT !.data = IF Truthy(@) THEN @ ELSE p.r.data,
                            !.isSuccess = TRUE, !.isLoading = FALSE, !.isFetching = FALSE,
                            !.cashExp = IF p.r.isCashAvilable THEN p.r.cashTime
                                        ELSE t + p.r.cashTimeout,
                            !.arg = p.r.arg, !.tags = ComputeTags(d, p.r.data)],
        r |-> [p.r EXCEPT !.pc = "done", !.result = [data |-> p.r.data, error |-> Undef]]]
  ELSE [st |-> [p.st EXCEPT !.isLoading = FALSE, !.isSuccess = FALSE, !.isFetching = FALSE,
                            !.isError = TRUE, !.error = IF Truthy(@) THEN @ ELSE p.r.error,
                            !.arg = p.r.arg],
        r |-> [p.r EXCEPT !.pc = "done", !.result = [data |-> Undef, error |-> p.r.error]]]

\* if(data) { ...set success...; return {data} } set error...; return {error}
Settle(p, d, t) ==
  IF Truthy(p.r.data)
  THEN [st |-> [p.st EXCEPT !.data = p.r.data, !.isSuccess = TRUE, !.isLoading = FALSE,
                            !.isFetching = FALSE,
                            !.cashExp = IF p.r.isCashAvilable THEN p.r.cashTime
                                        ELSE t + p.r.cashTimeout,
                            !.arg = p.r.arg, !.tags = ComputeTags(d, p.r.data)],
        r |-> [p.r EXCEPT !.pc = "done", !.result = [data |-> p.r.data, error |-> Undef]]]
  ELSE [st |-> [p.st EXCEPT !.isLoading = FALSE, !.isSuccess = FALSE, !.isFetching = FALSE,
                            !.isError = TRUE, !.error = p.r.error, !.arg = p.r.arg],
        r |-> [p.r EXCEPT !.pc = "done", !.result = [data |-> Undef, error |-> p.r.error]]]

EnterOnError(p, d, t) ==
  IF d.onError THEN [p EXCEPT !.r.pc = "onError"] ELSE Settle(p, d, t)

EnterErrorBlock(p, d, t) ==
  IF Truthy(p.r.error)
  THEN IF d.transformError
       THEN [p EXCEPT !.r.pc = "transformError",
                      !.r.error = transformError(p.r.error, p.st.error)]
       ELSE EnterOnError(p, d, t)
  ELSE Settle(p, d, t)

EnterOnSuccess(p, d, t) ==
  IF d.onSuccess THEN [p EXCEPT !.r.pc = "onSuccess"] ELSE EnterErrorBlock(p, d, t)

EnterSuccessBlock(p, d, t) ==
  IF Truthy(p.r.data)
  THEN IF d.transformResponse
       THEN [p EXCEPT !.r.pc = "transformResponse",
                      !.r.data = transformResponse(p.r.data, p.st.data)]
       ELSE EnterOnSuccess(p, d, t)
  ELSE EnterErrorBlock(p, d, t)

EnterBaseQuery(p, d, t) ==
  IF ~p.r.isCashAvilable
  THEN [p EXCEPT !.st.isFetching = TRUE, !.r.pc = "baseQuery", !.r.calls = @ + 1,
                 !.r.fetching = TRUE]
  ELSE EnterSuccessBlock(p, d, t)

EnterTransformBody(p, d, t) ==
  IF d.transformBody THEN [p EXCEPT !.r.pc = "transformBody"] ELSE EnterBaseQuery(p, d, t)

EnterTransformHeader(p, d, t) ==
  IF d.transformHeader THEN [p EXCEPT !.r.pc = "transformHeader"]
  ELSE EnterTransformBody(p, d, t)

\* coreFn from its first line to its first await
CoreStart(p, d, t) ==
  LET hit == IsCashAvilable(p.r.isRefetch, p.st.arg, p.r.arg, p.st.cashExp, t)
      q == [st |-> [p.st EXCEPT !.isLoading = TRUE],
            r |-> [p.r EXCEPT !.cashTime = p.st.cashExp, !.isCashAvilable = hit,
                              !.data = IF hit THEN p.st.data ELSE Null]]
  IN IF ~hit /\ d.queryFnc
     THEN [q EXCEPT !.st.isFetching = TRUE, !.r.pc = "queryFnc", !.r.calls = @ + 1,
                    !.r.fetching = TRUE]
     ELSE IF ~d.queryFn
          THEN Catch(q, Err("TypeError"), t)
          ELSE EnterTransformHeader(q, d, t)

\* the code after an awaited hook resolves
Resume(p, d, t) ==
  CASE p.r.pc = "transformHeader" -> EnterTransformBody(p, d, t)
    [] p.r.pc = "transformBody" -> EnterBaseQuery(p, d, t)
    [] p.r.pc = "transformResponse" -> EnterOnSuccess(p, d, t)
    [] p.r.pc = "onSuccess" -> EnterErrorBlock(p, d, t)
    [] p.r.pc = "transformError" -> EnterOnError(p, d, t)
    [] p.r.pc = "onError" -> Settle(p, d, t)

\* const {data:d, error:e} = await ...; if(d) data = d; if(e) error = e
Respond(p, d, resp, t) ==
  EnterSuccessBlock(
    [p EXCEPT !.r.data = IF Truthy(resp.data) THEN resp.data ELSE @,
              !.r.error = IF Truthy(resp.error) THEN resp.error ELSE @,
              !.r.rawError = resp.error, !.r.rawData = resp.data], d, t)

HookPcs == {"transformHeader", "transformBody", "transformResponse", "onSuccess",
            "transformError", "onError"}
TransportPcs == {"baseQuery", "queryFnc"}

(* -------------------------------- queryFn ------------------------------ *)
\* no settle has been written yet.  fetchedAt is the time of the settle when
\* it stored data fetched by its run, 0 otherwise
NoSettle == [some |-> FALSE, data |-> Undef, arg |-> Null, calls |-> 0, fetchedAt |-> 0]

InFlight(e) == {i \in 1..Len(runs) : runs[i].entry = e}

\* the locals of a new run: the arguments queryFn receives from the store's
\* query/reFetch members.  History fields (not read by the program):
\*   seenArg, inWindow  the stored argument and whether cashExp >= now at the start
\*   prev, withinT      the settle the run follows when no other run on the
\*                      entry is in flight, and whether that settle stored
\*                      fetched data no more than the timeout ago
\*   argChanged         started by an effect whose dependency changed
\*   rawError           the error the transport resolved with
\*   calls, fetching    transport (or custom function) calls made, and whether
\*                      the run wrote isFetching: true
\*   thrown, thrownAt   the exception thrown during the run, and where
\*   coreCalls, settles coreFn calls made and returned
\*   trace              the plugin hooks queryFn has called, and "result" for
\*                      the return of `await runner(0)`, in order
\*   mtrace             the middlewares the run entered ("pre") and those whose
\*                      `await next()` returned ("post"), in order
\*   rawData            the data the transport resolved with
\*   stale              the entry was expired by a utility after the run had
\*                      issued its transport call or read the cached data
\* index is the variable of that name of queryFn, stack the middleware calls
\* of runner that have not returned, and plugin the position in the plugin
\* list of the hook queryFn awaits.
InFlightIn(w, e) == {i \in 1..Len(w.runs) : w.runs[i].entry = e}

NewRunIn(w, kind, e, arg, cashTimeout, isRefetch, argChanged) ==
  [id |-> w.nruns + 1, kind |-> kind, entry |-> e, arg |-> arg,
   cashTimeout |-> cashTimeout, isRefetch |-> isRefetch, pc |-> "start",
   data |-> Null, error |-> Null, isCashAvilable |-> FALSE, cashTime |-> 0,
   calls |-> 0, result |-> [data |-> Undef, error |-> Undef],
   seenArg |-> w.store[e].arg, inWindow |-> w.store[e].cashExp >= now,
   prev |-> IF InFlightIn(w, e) = {} THEN w.settled[e] ELSE NoSettle,
   withinT |-> InFlightIn(w, e) = {} /\ w.settled[e].fetchedAt > 0
                 /\ now <= w.settled[e].fetchedAt + cashTimeout,
   argChanged |-> argChanged, rawError |-> Undef, fetching |-> FALSE,
   thrown |-> Undef, thrownAt |-> "", index |-> -1, stack |-> <<>>,
   coreCalls |-> 0, settles |-> 0, plugin |-> 0, trace |-> <<>>, mtrace |-> <<>>,
   rawData |-> Undef, stale |-> FALSE]

\* the part of the state a run reads and writes
World ==
  [store |-> store, runs |-> runs, nruns |-> nruns, last |-> last, settled |-> settled]

NewRun(kind, e, arg, cashTimeout, isRefetch, argChanged) ==
  NewRunIn(World, kind, e, arg, cashTimeout, isRefetch, argChanged)

NoRun ==
  [id |-> 0, kind |-> "none", entry |-> "none", arg |-> Null, cashTimeout |-> 0,
   isRefetch |-> FALSE, pc |-> "start", data |-> Null, error |-> Null,
   isCashAvilable |-> FALSE, cashTime |-> 0, calls |-> 0,
   result |-> [data |-> Undef, error |-> Undef], seenArg |-> Null,
   inWindow |-> FALSE, prev |-> NoSettle, withinT |-> FALSE, argChanged |-> FALSE,
   rawError |-> Undef, fetching |-> FALSE, thrown |-> Undef, thrownAt |-> "",
   index |-> -1, stack |-> <<>>, coreCalls |-> 0, settles |-> 0, plugin |-> 0,
   trace |-> <<>>, mtrace |-> <<>>, rawData |-> Undef, stale |-> FALSE]

\* the latest step called no API function
NoOp == [name |-> "none", tags |-> <<>>, key |-> "", result |-> FALSE]

Without(i) == SubSeq(runs, 1, i - 1) \o SubSeq(runs, i + 1, Len(runs))

\* bookkeeping after a step left a run as p.r (i is its index in `runs`, 0
\* for a run that just started): a run that returned leaves `runs` and
\* becomes `last`, and its write is remembered in `settled`
Record(p, i) ==
  /\ store' = [store EXCEPT ![p.r.entry] = p.st]
  /\ op' = NoOp
  /\ IF p.r.pc = "done"
     THEN /\ runs' = IF i = 0 THEN runs ELSE Without(i)
          /\ last' = p.r
          /\ settled' = [settled EXCEPT ![p.r.entry] =
                           [some |-> TRUE, data |-> p.r.result.data, arg |-> p.r.arg,
                            calls |-> p.r.calls,
                            fetchedAt |-> IF p.r.result.data # Undef /\ p.r.calls > 0
                                          THEN now ELSE 0]]
     ELSE /\ runs' = IF i = 0 THEN Append(runs, p.r) ELSE [runs EXCEPT ![i] = p.r]
          /\ last' = NoRun
          /\ UNCHANGED settled

\* queryFn with the default (empty) middleware and plugin lists: runner(0)
\* finds no middleware and calls coreFn, which runs to its first await
queryFn(kind, e, arg, cashTimeout, isRefetch, argChanged) ==
  LET p == CoreStart([st |-> store[e],
                      r |-> NewRun(kind, e, arg, cashTimeout, isRefetch, argChanged)],
                     DefOf(e), now)
  IN /\ nruns < MaxRuns
     /\ nruns' = nruns + 1
     /\ Record(p, 0)

(* ------------------------------ API utilities -------------------------- *)
\* The utilities call set and reFetch of several stores in one synchronous
\* stretch, so they are written as functions from world to world.

\* what the settle of the returned run r wrote
Written(r) ==
  [some |-> TRUE, data |-> r.result.data, arg |-> r.arg, calls |-> r.calls,
   fetchedAt |-> IF r.result.data # Undef /\ r.calls > 0 THEN now ELSE 0]

\* queryFn called in world w with the default middleware and plugin lists,
\* up to the first await of coreFn
StartIn(w, kind, e, arg, cashTimeout, isRefetch) ==
  LET p == CoreStart([st |-> w.store[e],
                      r |-> NewRunIn(w, kind, e, arg, cashTimeout, isRefetch, FALSE)],
                     DefOf(e), now)
      done == p.r.pc = "done"
  IN [store |-> [w.store EXCEPT ![e] = p.st],
      runs |-> IF done THEN w.runs ELSE Append(w.runs, p.r),
      nruns |-> w.nruns + 1,
      last |-> IF done THEN p.r ELSE w.last,
      settled |-> IF done THEN [w.settled EXCEPT ![e] = Written(p.r)] ELSE w.settled]

\* action.set({cashExp: 0}); reFetch() of the store registered under key k.
\* (History: the runs in flight on the entry that have issued their transport
\* call, or have read the cached data, are marked stale.)
ExpireAndReFetch(w, kind, k) ==
  LET w1 == [w EXCEPT !.store[k].cashExp = 0,
                      !.runs = [i \in 1..Len(w.runs) |->
                                  IF w.runs[i].entry = k
                                       /\ (w.runs[i].calls >= 1 \/ w.runs[i].isCashAvilable)
                                  THEN [w.runs[i] EXCEPT !.stale = TRUE]
                                  ELSE w.runs[i]]]
  IN StartIn(w1, kind, k, w1.store[k].arg, CacheTimeout, TRUE)

\* the world becomes the next state
Commit(w) ==
  /\ store' = w.store
  /\ runs' = w.runs
  /\ nruns' = w.nruns
  /\ last' = w.last
  /\ settled' = w.settled

Registered == {actions[n] : n \in 1..Len(actions)}

\* state?.tags || []
QueryTags(state) == IF Truthy(state.tags) THEN state.tags.items ELSE <<>>

\* mutant of the match: every invalidation tag has to match
shouldInvalidateEvery(tags, queryTags) ==
  \A i \in 1..Len(tags) : \E j \in 1..Len(queryTags) : tagMatches(tags[i], queryTags[j])

\* tags.some(invalidTag => queryTags.some(queryTag => tagMatches(...)))
shouldInvalidate(tags, queryTags) ==
  \E i \in 1..Len(tags) : \E j \in 1..Len(queryTags) : tagMatches(tags[i], queryTags[j])

\* mutant of the loop body: the entry is expired and refetched regardless
InvalidateEntryAlways(w, k, tags) ==
  ExpireAndReFetch(w, "invalidateTags", k)

\* the body of the loop of invalidateTags for the store under key k
InvalidateEntry(w, k, tags) ==
  IF shouldInvalidate(tags, QueryTags(w.store[k]))
  THEN ExpireAndReFetch(w, "invalidateTags", k)
  ELSE w

\* the loop of invalidateTags over actions.entries(), from the n-th entry on
RECURSIVE InvalidateFrom(_, _, _)
InvalidateFrom(w, n, tags) ==
  IF n > Len(actions) THEN w
  ELSE InvalidateFrom(InvalidateEntry(w, actions[n], tags), n + 1, tags)

\* invalidateTags(tags); present = FALSE is the call without an argument
invalidateTags(present, tags) ==
  LET w == IF ~present \/ Len(tags) = 0 THEN [World EXCEPT !.last = NoRun]
           ELSE InvalidateFrom([World EXCEPT !.last = NoRun], 1, tags)
  IN /\ w.nruns <= MaxRuns + MaxRefetches
     /\ Commit(w)
     /\ op' = [name |-> "invalidateTags", tags |-> tags, key |-> "", result |-> present]
     /\ UNCHANGED <<now, defs, stors, dep, actions, hooks, api, count>>

\* mutant of the loop body: entries that never ran are left alone
ResetEntryFetched(w, k) ==
  IF w.settled[k].some \/ InFlightIn(w, k) # {}
  THEN ExpireAndReFetch(w, "resetApiState", k)
  ELSE w

\* the body of the loop of resetApiState for the store under key k
ResetEntry(w, k) == ExpireAndReFetch(w, "resetApiState", k)

\* the loop of resetApiState, from the n-th entry on
RECURSIVE ResetFrom(_, _)
ResetFrom(w, n) ==
  IF n > Len(actions) THEN w
  ELSE ResetFrom(ResetEntry(w, actions[n]), n + 1)

resetApiState ==
  LET w == ResetFrom([World EXCEPT !.last = NoRun], 1)
  IN /\ w.nruns <= MaxRuns + MaxRefetches
     /\ Commit(w)
     /\ op' = [name |-> "resetApiState", tags |-> <<>>, key |-> "", result |-> TRUE]
     /\ UNCHANGED <<now, defs, stors, dep, actions, hooks, api, count>>

\* refetchQuery(key, arg)
refetchQuery(key, arg) ==
  LET cacheKey == createCacheKey(key, arg)
      w0 == [World EXCEPT !.last = NoRun]
      w == IF cacheKey \notin Registered THEN w0
           ELSE ExpireAndReFetch(w0, "refetchQuery", cacheKey)
  IN /\ w.nruns <= MaxRuns + MaxRefetches
     /\ Commit(w)
     /\ op' = [name |-> "refetchQuery", tags |-> <<>>, key |-> cacheKey, result |-> TRUE]
     /\ UNCHANGED <<now, defs, stors, dep, actions, hooks, api, count>>

\* the updater the application passes to updateQueryData, the one of the
\* function's documentation: (draft) => ({...draft, name: 'Updated Name'}).
\* Applied to data it has already updated it returns equal data.
updater(data) ==
  IF "upd" \in DOMAIN data THEN data ELSE [t |-> "object", upd |-> data]

\* mutant of updateQueryData: the patch also expires the entry
updateQueryDataExpiring(key, arg) ==
  LET cacheKey == createCacheKey(key, arg) IN
  /\ store' = IF cacheKey \notin Registered THEN store
              ELSE [store EXCEPT ![cacheKey].data = updater(@), ![cacheKey].cashExp = 0]
  /\ last' = NoRun
  /\ op' = [name |-> "updateQueryData", tags |-> <<>>, key |-> cacheKey, result |-> TRUE]
  /\ UNCHANGED <<now, defs, stors, dep, runs, nruns, settled, actions, hooks, api, count>>

\* updateQueryData(key, arg, updater)
updateQueryData(key, arg) ==
  LET cacheKey == createCacheKey(key, arg) IN
  /\ store' = IF cacheKey \notin Registered THEN store
              ELSE [store EXCEPT ![cacheKey].data = updater(@)]
  /\ last' = NoRun
  /\ op' = [name |-> "updateQueryData", tags |-> <<>>, key |-> cacheKey, result |-> TRUE]
  /\ UNCHANGED <<now, defs, stors, dep, runs, nruns, settled, actions, hooks, api, count>>

(* -------------------------------- actions ------------------------------ *)
\* the query hook called with (arg, {skip}) by a component that mounts, or
\* that renders again with an argument whose JSON.stringify(arg || {}) differs
\* from the one of the previous call: in both cases the effect runs.  (A
\* render with an unchanged dependency runs no effect and changes nothing.)
UseQuery(arg, skip) ==
  LET cacheKey == createCacheKey(QName, arg) IN
  /\ dep' = SerArg(arg)
  /\ stors' = stors \cup {cacheKey}
  /\ actions' = IF cacheKey \in stors THEN actions ELSE Append(actions, cacheKey)
  /\ IF skip
     THEN last' = NoRun /\ op' = NoOp /\ UNCHANGED <<store, runs, nruns, settled>>
     ELSE queryFn("query", cacheKey, arg, CacheTimeout, FALSE,
                  dep \notin {"none", SerArg(arg)})
  /\ UNCHANGED <<now, defs, hooks, api, count>>

\* mutant of reFetch: the run is not forced
ReFetchNotForced(e) ==
  /\ e \in stors \cap QKeys
  /\ queryFn("reFetch", e, store[e].arg, CacheTimeout, FALSE, FALSE)
  /\ UNCHANGED <<now, defs, stors, dep, actions, hooks, api, count>>

\* reFetch of a query store: queryFn(get()?.arg, ..., true, ...)
ReFetch(e) ==
  /\ e \in stors \cap QKeys
  /\ queryFn("reFetch", e, store[e].arg, CacheTimeout, TRUE, FALSE)
  /\ UNCHANGED <<now, defs, stors, dep, actions, hooks, api, count>>

\* mutant: the mutation store is registered in the actions map
UseMutationRegistered ==
  /\ MKey \notin stors
  /\ stors' = stors \cup {MKey}
  /\ actions' = Append(actions, MKey)
  /\ last' = NoRun
  /\ op' = NoOp
  /\ UNCHANGED <<now, defs, store, dep, runs, nruns, settled, hooks, api, count>>

\* the mutation hook: creates the mutation store on its first call
UseMutation ==
  /\ MKey \notin stors
  /\ stors' = stors \cup {MKey}
  /\ last' = NoRun
  /\ op' = NoOp
  /\ UNCHANGED <<now, defs, store, dep, runs, nruns, settled, actions, hooks, api, count>>

\* the mutation trigger returned by the mutation hook
Mutate(arg) ==
  /\ MKey \in stors
  /\ queryFn("mutation", MKey, arg, MutationTimeout, FALSE, FALSE)
  /\ UNCHANGED <<now, defs, stors, dep, actions, hooks, api, count>>

\* an awaited hook of the i-th run in flight resolves
HookResolves(i) ==
  /\ runs[i].pc \in HookPcs
  /\ Record(Resume([st |-> store[runs[i].entry], r |-> runs[i]],
                   DefOf(runs[i].entry), now), i)
  /\ UNCHANGED <<now, defs, stors, dep, nruns, actions, hooks, api, count>>

\* the transport (or the custom query function) of the i-th run resolves
TransportResolves(i, resp) ==
  /\ runs[i].pc \in TransportPcs
  /\ Record(Respond([st |-> store[runs[i].entry], r |-> runs[i]],
                    DefOf(runs[i].entry), resp, now), i)
  /\ UNCHANGED <<now, defs, stors, dep, nruns, actions, hooks, api, count>>

\* Date.now() advances
Tick ==
  /\ now < MaxTime
  /\ now' = now + 1
  /\ last' = NoRun
  /\ op' = NoOp
  /\ UNCHANGED <<defs, stors, store, dep, runs, nruns, settled, actions, hooks, api, count>>

\* the state after createApi(...) with endpoint definitions from D
InitWith(D) ==
  /\ now = 1
  /\ defs \in D
  /\ stors = {}
  /\ store = [e \in Entries |-> InitialState]
  /\ dep = "none"
  /\ runs = <<>>
  /\ nruns = 0
  /\ last = NoRun
  /\ settled = [e \in Entries |-> NoSettle]
  /\ actions = <<>>
  /\ hooks = {HookName(QName, "query"), HookName(MName, "mutation")}
  /\ api = hooks \cup ApiMembers
  /\ count = InitialCount
  /\ op = NoOp

\* one query entry: the hook called with one argument, and reFetch, for
\* every shape of endpoint definition
NextEntry ==
  \/ \E arg \in EntryArgs, skip \in BOOLEAN : UseQuery(arg, skip)
  \/ \E e \in QKeys : ReFetch(e)
  \/ \E i \in 1..Len(runs) : HookResolves(i)
  \/ \E i \in 1..Len(runs) : \E resp \in Responses(runs[i].id) : TransportResolves(i, resp)
  \/ Tick

SpecEntry == InitWith([q : QueryDefs, m : {PlainDef}]) /\ [][NextEntry]_vars

\* the query endpoint called with changing arguments; its definitions have
\* no hooks to await
NextQuery ==
  \/ \E arg \in QArgs, skip \in BOOLEAN : UseQuery(arg, skip)
  \/ \E e \in QKeys : ReFetch(e)
  \/ \E i \in 1..Len(runs) : \E resp \in Responses(runs[i].id) : TransportResolves(i, resp)
  \/ Tick

SpecQuery ==
  InitWith([q : {PlainDef, CustomDef}, m : {PlainDef}]) /\ [][NextQuery]_vars

\* the mutation endpoint: its hook and its trigger
NextMutation ==
  \/ UseMutation
  \/ \E arg \in MArgs : Mutate(arg)
  \/ \E i \in 1..Len(runs) : HookResolves(i)
  \/ \E i \in 1..Len(runs) : \E resp \in Responses(runs[i].id) : TransportResolves(i, resp)
  \/ Tick

SpecMutation == InitWith([q : {PlainDef}, m : MutationDefs]) /\ [][NextMutation]_vars

\* tagMatches applied to a pair of tags
CallTagMatches(invalidTag, queryTag) ==
  /\ op' = [name |-> "tagMatches", tags |-> <<invalidTag, queryTag>>, key |-> "",
            result |-> tagMatches(invalidTag, queryTag)]
  /\ UNCHANGED <<now, defs, stors, store, dep, runs, nruns, last, settled, actions, hooks, api, count>>

NextTagMatches == \E invalidTag \in Tags, queryTag \in Tags : CallTagMatches(invalidTag, queryTag)

SpecTagMatches == InitWith([q : {PlainDef}, m : {PlainDef}]) /\ [][NextTagMatches]_vars

(* ------------------- a mutation whose onSuccess invalidates ------------ *)
\* bookkeeping, as Record, of a step in world w that left a run as p.r
RecordIn(w, p, i) ==
  LET done == p.r.pc = "done" IN
  [store |-> [w.store EXCEPT ![p.r.entry] = p.st],
   runs |-> IF done
            THEN (IF i = 0 THEN w.runs
                  ELSE SubSeq(w.runs, 1, i - 1) \o SubSeq(w.runs, i + 1, Len(w.runs)))
            ELSE (IF i = 0 THEN Append(w.runs, p.r) ELSE [w.runs EXCEPT ![i] = p.r]),
   nruns |-> IF i = 0 THEN w.nruns + 1 ELSE w.nruns,
   last |-> IF done THEN p.r ELSE NoRun,
   settled |-> IF done THEN [w.settled EXCEPT ![p.r.entry] = Written(p.r)] ELSE w.settled]

\* mutant: onSuccess does nothing
CallOnSuccessNever(w, p) == w

\* def.onSuccess(data) of the mutation is called when the run reaches its
\* await: the body, invalidateTags(['users']), runs before the await suspends
CallOnSuccess(w, p) ==
  IF p.r.pc = "onSuccess" THEN InvalidateFrom(w, 1, OnSuccessTags) ELSE w

\* a step of a mutation run that left it as p.r
MutationStep(p, i) ==
  LET w == CallOnSuccess(RecordIn(World, p, i), p) IN
  /\ w.nruns <= MaxRuns + MaxRefetches
  /\ Commit(w)
  /\ op' = IF p.r.pc = "onSuccess"
           THEN [name |-> "invalidateTags", tags |-> OnSuccessTags, key |-> MKey,
                 result |-> TRUE]
           ELSE NoOp

MutateInvalidating(arg) ==
  /\ MKey \in stors
  /\ nruns < MaxRuns
  /\ MutationStep(CoreStart([st |-> store[MKey],
                             r |-> NewRun("mutation", MKey, arg, MutationTimeout, FALSE, FALSE)],
                            DefOf(MKey), now), 0)
  /\ UNCHANGED <<now, defs, stors, dep, actions, hooks, api, count>>

MutationHookResolves(i) ==
  /\ runs[i].kind = "mutation"
  /\ runs[i].pc \in HookPcs
  /\ MutationStep(Resume([st |-> store[MKey], r |-> runs[i]], DefOf(MKey), now), i)
  /\ UNCHANGED <<now, defs, stors, dep, actions, hooks, api, count>>

MutationTransportResolves(i, resp) ==
  /\ runs[i].kind = "mutation"
  /\ runs[i].pc \in TransportPcs
  /\ MutationStep(Respond([st |-> store[MKey], r |-> runs[i]], DefOf(MKey), resp, now), i)
  /\ UNCHANGED <<now, defs, stors, dep, actions, hooks, api, count>>

\* a query of the example application
QueryTransportResolves(i, resp) ==
  /\ runs[i].kind # "mutation"
  /\ TransportResolves(i, resp)

NextInvalidating ==
  \/ \E arg \in EntryArgs : UseQuery(arg, FALSE)
  \/ UseMutation
  \/ \E arg \in EntryArgs : MutateInvalidating(arg)
  \/ \E i \in 1..Len(runs) : MutationHookResolves(i)
  \/ \E i \in 1..Len(runs) : \E resp \in Responses(runs[i].id) :
       MutationTransportResolves(i, resp)
  \/ \E i \in 1..Len(runs) : \E resp \in Responses(runs[i].id) :
       QueryTransportResolves(i, resp)
  \/ Tick

SpecInvalidating ==
  InitWith([q : {PlainDef, TaggedDef}, m : {InvalidatingDef}]) /\ [][NextInvalidating]_vars

(* ------------------------------ exceptions ----------------------------- *)
\* the exception a hook, the transport or buildRequest throws
Thrown == Err("thrown")

\* mutant: the exception leaves coreFn
ThrowRejects(p, e, t) ==
  [p EXCEPT !.r.thrown = e, !.r.thrownAt = p.r.pc, !.r.pc = "rejected"]

\* mutant: the exception is returned but not written to the entry
ThrowUnstored(p, e, t) ==
  [st |-> [p.st EXCEPT !.isLoading = FALSE, !.isFetching = FALSE],
   r |-> [p.r EXCEPT !.thrown = e, !.thrownAt = p.r.pc, !.pc = "done",
                     !.result = [data |-> Undef, error |-> e]]]

\* an exception thrown anywhere between `try {` and `} catch(e)` of coreFn
Throw(p, e, t) ==
  Catch([p EXCEPT !.r.thrown = e, !.r.thrownAt = p.r.pc], e, t)

\* coreFn from its first line, with a def.queryFn that throws
CoreStartThrowing(p, d, t) ==
  LET hit == IsCashAvilable(p.r.isRefetch, p.st.arg, p.r.arg, p.st.cashExp, t)
      q == [st |-> [p.st EXCEPT !.isLoading = TRUE],
            r |-> [p.r EXCEPT !.cashTime = p.st.cashExp, !.isCashAvilable = hit,
                              !.data = IF hit THEN p.st.data ELSE Null]]
  IN IF ~hit /\ d.queryFnc
     THEN [q EXCEPT !.st.isFetching = TRUE, !.r.pc = "queryFnc", !.r.calls = @ + 1,
                    !.r.fetching = TRUE]
     ELSE Throw([q EXCEPT !.r.pc = "queryFn"], Thrown, t)

\* the query hook's effect calls query(arg), whose def.queryFn(arg) throws
UseQueryThrowing(arg) ==
  LET cacheKey == createCacheKey(QName, arg) IN
  /\ dep' = SerArg(arg)
  /\ stors' = stors \cup {cacheKey}
  /\ actions' = IF cacheKey \in stors THEN actions ELSE Append(actions, cacheKey)
  /\ nruns < MaxRuns
  /\ nruns' = nruns + 1
  /\ Record(CoreStartThrowing([st |-> store[cacheKey],
                               r |-> NewRun("query", cacheKey, arg, CacheTimeout, FALSE, FALSE)],
                              DefOf(cacheKey), now), 0)
  /\ UNCHANGED <<now, defs, hooks, api, count>>

\* an awaited hook of the i-th run in flight throws (or rejects)
HookThrows(i) ==
  /\ runs[i].pc \in HookPcs
  /\ Record(Throw([st |-> store[runs[i].entry], r |-> runs[i]], Thrown, now), i)
  /\ UNCHANGED <<now, defs, stors, dep, nruns, actions, hooks, api, count>>

\* the transport (or the custom query function) of the i-th run throws (or
\* rejects)
TransportThrows(i) ==
  /\ runs[i].pc \in TransportPcs
  /\ Record(Throw([st |-> store[runs[i].entry], r |-> runs[i]], Thrown, now), i)
  /\ UNCHANGED <<now, defs, stors, dep, nruns, actions, hooks, api, count>>

NextThrow ==
  \/ \E arg \in EntryArgs, skip \in BOOLEAN : UseQuery(arg, skip)
  \/ \E arg \in EntryArgs : UseQueryThrowing(arg)
  \/ \E e \in QKeys : ReFetch(e)
  \/ \E i \in 1..Len(runs) : HookResolves(i)
  \/ \E i \in 1..Len(runs) : HookThrows(i)
  \/ \E i \in 1..Len(runs) : \E resp \in Responses(runs[i].id) : TransportResolves(i, resp)
  \/ \E i \in 1..Len(runs) : TransportThrows(i)
  \/ Tick

SpecThrow == InitWith([q : QueryDefs, m : {PlainDef}]) /\ [][NextThrow]_vars

(* ------------------- queryFn with middlewares and a plugin ------------- *)
\* The middlewares of the modelled applications:
\*   "pass"   async (ctx, next) => next()
\*   "short"  async () => ({})                       (next is not called)
\*   "twice"  async (ctx, next) => { await next(); return next() }
\*   "cached" async (ctx, next) => ctx.get().data ? {data: ctx.get().data} : next()
\* A middleware of any other name is a logger,
\*   async (ctx, next) => { pre; const result = await next(); post; return result }
\* defs.mw is the list passed to createApi.  Its one plugin has the hooks
\* beforeQuery, afterQuery and onError and no middleware.
MwKinds == {"pass", "short", "twice"}
Chains == UNION {[1..n -> MwKinds] : n \in 0..MaxMiddlewares}
PluginPcs == {"beforeQuery", "afterQuery", "pluginOnError"}
NextTwiceError == Err("next() called multiple times")
PluginError == Err("plugin")

\* what a call of runner(i) or of a middleware returns: a rejected promise
\* (rej, with the exception) or a resolved one (with the result)
Out(rej, val) == [rej |-> rej, val |-> val]

\* mutant: runner has no guard
RunnerNeverThrows(i, index) == FALSE

\* if (i <= index) throw new Error("next() called multiple times")
RunnerThrows(i, index) == i <= index

RECURSIVE runner(_, _, _, _, _)
RECURSIVE Returns(_, _, _, _, _)
RECURSIVE CoreReturns(_, _, _, _)

\* an event of a run's mtrace: e is "pre" or "post", i the position of the
\* middleware in the list and m the middleware
Mw(e, i, m) == [e |-> e, i |-> i, m |-> m]

\* runner(i), up to the next await that waits for something outside the run
runner(p, i, chain, d, t) ==
  IF RunnerThrows(i, p.r.index)
  THEN Returns(p, Out(TRUE, NextTwiceError), chain, d, t)
  ELSE LET q == [p EXCEPT !.r.index = i] IN
       IF i >= Len(chain)
       THEN CoreReturns(CoreStart([q EXCEPT !.r.coreCalls = @ + 1], d, t), chain, d, t)
       ELSE LET m == [q EXCEPT !.r.mtrace = Append(@, Mw("pre", i + 1, chain[i + 1]))] IN
            IF chain[i + 1] = "short"
            THEN Returns(m, Out(FALSE, [data |-> Undef, error |-> Undef]), chain, d, t)
            ELSE IF chain[i + 1] = "cached" /\ Truthy(m.st.data)
                 THEN Returns(m, Out(FALSE, [data |-> m.st.data, error |-> Undef]),
                              chain, d, t)
                 ELSE runner([m EXCEPT !.r.stack = Append(@, [i |-> i, phase |-> 1])],
                             i + 1, chain, d, t)

\* the promise of a runner(i) call settles with out: the middleware waiting
\* for it continues, or, with no middleware left, `await runner(0)` of queryFn
Returns(p, out, chain, d, t) ==
  IF p.r.stack = <<>>
  THEN IF out.rej
       THEN [p EXCEPT !.r.pc = "rejected", !.r.thrown = out.val, !.r.thrownAt = "runner"]
       ELSE [p EXCEPT !.r.pc = "afterQuery", !.r.result = out.val]
  ELSE LET f == p.r.stack[Len(p.r.stack)]
           q == [p EXCEPT !.r.stack = SubSeq(@, 1, Len(@) - 1),
                          !.r.mtrace = IF out.rej \/ f.phase = 2 THEN @
                                       ELSE Append(@, Mw("post", f.i + 1, chain[f.i + 1]))]
       IN IF ~out.rej /\ chain[f.i + 1] = "twice" /\ f.phase = 1
          THEN runner([q EXCEPT !.r.stack = Append(@, [i |-> f.i, phase |-> 2])],
                      f.i + 1, chain, d, t)
          ELSE Returns(q, out, chain, d, t)

\* coreFn, called by runner, was left as p.r: when it has returned, its
\* promise resolves with its result
CoreReturns(p, chain, d, t) ==
  IF p.r.pc = "done"
  THEN Returns([p EXCEPT !.r.settles = @ + 1, !.r.pc = "runner"],
               Out(FALSE, p.r.result), chain, d, t)
  ELSE p

\* mutant: the exception of a plugin hook is handled as coreFn handles one
PluginThrowsCaught(p, e, t) ==
  Catch([p EXCEPT !.r.thrown = e, !.r.thrownAt = p.r.pc], e, t)

\* a plugin hook awaited by queryFn throws: queryFn's promise rejects
PluginThrows(p, e, t) ==
  [p EXCEPT !.r.thrown = e, !.r.thrownAt = p.r.pc, !.r.pc = "rejected"]

\* bookkeeping, as Record, of a pipeline step that left a run as p.r; before
\* is the number of coreFn calls of the run that had returned before the step
PipelineRecord(p, i, before) ==
  /\ store' = [store EXCEPT ![p.r.entry] = p.st]
  /\ op' = NoOp
  /\ settled' = IF p.r.settles > before
                THEN [settled EXCEPT ![p.r.entry] = Written(p.r)] ELSE settled
  /\ IF p.r.pc \in {"done", "rejected"}
     THEN /\ runs' = IF i = 0 THEN runs ELSE Without(i)
          /\ last' = p.r
     ELSE /\ runs' = IF i = 0 THEN Append(runs, p.r) ELSE [runs EXCEPT ![i] = p.r]
          /\ last' = NoRun

\* the query hook's effect calls query(arg): queryFn calls the plugin's
\* beforeQuery and awaits it
PipelineUseQuery(arg) ==
  LET cacheKey == createCacheKey(QName, arg) IN
  /\ dep' = SerArg(arg)
  /\ stors' = stors \cup {cacheKey}
  /\ actions' = IF cacheKey \in stors THEN actions ELSE Append(actions, cacheKey)
  /\ nruns < MaxRuns
  /\ nruns' = nruns + 1
  /\ PipelineRecord([st |-> store[cacheKey],
                     r |-> [NewRun("query", cacheKey, arg, CacheTimeout, FALSE, FALSE)
                              EXCEPT !.pc = "beforeQuery"]], 0, 0)
  /\ UNCHANGED <<now, defs, hooks, api, count>>

\* the code of queryFn after an awaited plugin hook resolves
PipelineResume(p, chain, d, t) ==
  CASE p.r.pc = "beforeQuery" -> runner(p, 0, chain, d, t)
    [] p.r.pc = "afterQuery" ->
         IF Truthy(p.r.result.error) THEN [p EXCEPT !.r.pc = "pluginOnError"]
         ELSE [p EXCEPT !.r.pc = "done"]
    [] p.r.pc = "pluginOnError" -> [p EXCEPT !.r.pc = "done"]

PluginHookResolves(i) ==
  /\ runs[i].pc \in PluginPcs
  /\ PipelineRecord(PipelineResume([st |-> store[runs[i].entry], r |-> runs[i]], defs.mw,
                                   DefOf(runs[i].entry), now), i, runs[i].settles)
  /\ UNCHANGED <<now, defs, stors, dep, nruns, actions, hooks, api, count>>

PluginHookThrows(i) ==
  /\ runs[i].pc \in PluginPcs
  /\ PipelineRecord(PluginThrows([st |-> store[runs[i].entry], r |-> runs[i]],
                                 PluginError, now), i, runs[i].settles)
  /\ UNCHANGED <<now, defs, stors, dep, nruns, actions, hooks, api, count>>

\* the transport of the i-th run resolves: coreFn finishes, and its result
\* travels back through the middlewares to queryFn
PipelineTransportResolves(i, resp) ==
  /\ runs[i].pc \in TransportPcs
  /\ PipelineRecord(CoreReturns(Respond([st |-> store[runs[i].entry], r |-> runs[i]],
                                        DefOf(runs[i].entry), resp, now),
                                defs.mw, DefOf(runs[i].entry), now), i, runs[i].settles)
  /\ UNCHANGED <<now, defs, stors, dep, nruns, actions, hooks, api, count>>

NextPipeline ==
  \/ \E arg \in EntryArgs : PipelineUseQuery(arg)
  \/ \E i \in 1..Len(runs) : PluginHookResolves(i)
  \/ \E i \in 1..Len(runs) : PluginHookThrows(i)
  \/ \E i \in 1..Len(runs) : \E resp \in Responses(runs[i].id) :
        PipelineTransportResolves(i, resp)
  \/ Tick

SpecPipeline ==
  InitWith([q : {PlainDef}, m : {PlainDef}, mw : Chains]) /\ [][NextPipeline]_vars

\* the tag lists the application passes to invalidateTags
TagLists ==
  {<<>>, <<Str("users")>>, <<Str("posts"), Str("users")>>, <<TagObj("users", Num(1))>>,
   <<TagObj("users", Num(1)), TagObj("users", Undef)>>}

\* query entries with provided tags, and invalidateTags
NextTags ==
  \/ \E arg \in QArgs : UseQuery(arg, FALSE)
  \/ \E tags \in TagLists : invalidateTags(TRUE, tags)
  \/ invalidateTags(FALSE, <<>>)
  \/ \E i \in 1..Len(runs) : \E resp \in Responses(runs[i].id) : TransportResolves(i, resp)

SpecTags == InitWith([q : {PlainDef, TaggedDef}, m : {PlainDef}]) /\ [][NextTags]_vars

\* query entries patched by updateQueryData
NextPatch ==
  \/ \E arg \in QArgs, skip \in BOOLEAN : UseQuery(arg, skip)
  \/ \E key \in {QName, MName}, arg \in QArgs : updateQueryData(key, arg)
  \/ \E i \in 1..Len(runs) : \E resp \in Responses(runs[i].id) : TransportResolves(i, resp)
  \/ Tick

SpecPatch == InitWith([q : {PlainDef}, m : {PlainDef}]) /\ [][NextPatch]_vars

\* a query hook that is only ever called with skip = true for one argument,
\* next to a query that runs, and the utilities
SkippedArg == Obj(2)
FetchedArg == Obj(1)

NextSkip ==
  \/ UseQuery(SkippedArg, TRUE)
  \/ \E skip \in BOOLEAN : UseQuery(FetchedArg, skip)
  \/ \E tags \in TagLists : invalidateTags(TRUE, tags)
  \/ updateQueryData(QName, FetchedArg)
  \/ refetchQuery(QName, FetchedArg)
  \/ resetApiState
  \/ \E i \in 1..Len(runs) : \E resp \in Responses(runs[i].id) : TransportResolves(i, resp)

SpecSkip == InitWith([q : {PlainDef, TaggedDef}, m : {PlainDef}]) /\ [][NextSkip]_vars

\* query entries in every state, and resetApiState
NextReset ==
  \/ UseQuery(SkippedArg, TRUE)
  \/ UseQuery(FetchedArg, FALSE)
  \/ resetApiState
  \/ \E i \in 1..Len(runs) : \E resp \in Responses(runs[i].id) : TransportResolves(i, resp)

SpecReset == InitWith([q : {PlainDef, TaggedDef}, m : {PlainDef}]) /\ [][NextReset]_vars

(* ---------------------- the accessor of a mounted component ------------ *)
\* mutant: the hook creates a store on every call
CreateStoreAlways(cacheKey) == InitialState

\* if (!stors.has(cacheKey)) { const store = create(...); stors.set(...) }
\* const useQueryState = stors.get(cacheKey): the state of the store the hook
\* reads
CreateStore(cacheKey) == IF cacheKey \in stors THEN store[cacheKey] ELSE InitialState

\* one component calls the query hook with (arg, {skip}) on every render: on
\* its first render (dep = "none") the effect runs, on a later render it runs
\* when JSON.stringify(arg || {}) differs from the one of the previous render
RenderQuery(arg, skip) ==
  LET cacheKey == createCacheKey(QName, arg)
      effect == dep # SerArg(arg)
      w0 == [World EXCEPT !.store[cacheKey] = CreateStore(cacheKey), !.last = NoRun]
      w == IF effect /\ ~skip
           THEN StartIn(w0, "query", cacheKey, arg, CacheTimeout, FALSE)
           ELSE w0
  IN /\ w.nruns <= MaxRuns
     /\ Commit(w)
     /\ dep' = SerArg(arg)
     /\ stors' = stors \cup {cacheKey}
     /\ actions' = IF cacheKey \in stors THEN actions ELSE Append(actions, cacheKey)
     /\ op' = [name |-> "useQuery", tags |-> <<arg>>, key |-> cacheKey, result |-> skip]
     /\ UNCHANGED <<now, defs, hooks, api, count>>

NextRender ==
  \/ \E arg \in HookArgs, skip \in BOOLEAN : RenderQuery(arg, skip)
  \/ \E i \in 1..Len(runs) : TransportResolves(i, [data |-> Num(runs[i].id), error |-> Undef])

SpecRender == InitWith([q : {PlainDef}, m : {PlainDef}]) /\ [][NextRender]_vars

(* ------------------------------ injectEndpoints ------------------------ *)
\* the endpoints the application injects after createApi has returned
InjectedEndpoints ==
  {[key |-> "getProfile", type |-> "query"], [key |-> "updateProfile", type |-> "mutation"]}

\* injectEndpoints({endpoints: (builder) => ({[key]: def})}), def of the given
\* type.  The object createApi returned is a copy of hooks made by the spread
\* of its return statement: the function has no reference to it.
injectEndpoints(key, type, def) ==
  /\ hooks' = hooks \cup {HookName(key, type)}
  /\ defs' = [x \in DOMAIN defs \cup {key} |-> IF x = key THEN def ELSE defs[x]]
  /\ last' = NoRun
  /\ op' = [name |-> "injectEndpoints", tags |-> <<>>, key |-> HookName(key, type),
            result |-> TRUE]
  /\ UNCHANGED <<now, stors, store, dep, runs, nruns, settled, actions, api, count>>

NextInject ==
  \/ \E arg \in QArgs, skip \in BOOLEAN : UseQuery(arg, skip)
  \/ \E e \in InjectedEndpoints : injectEndpoints(e.key, e.type, PlainDef)
  \/ \E i \in 1..Len(runs) : \E resp \in Responses(runs[i].id) : TransportResolves(i, resp)

SpecInject == InitWith([q : {PlainDef}, m : {PlainDef}]) /\ [][NextInject]_vars

(* ------------------------------ createCacheKey ------------------------- *)
\* the endpoint names and arguments createCacheKey is applied to: absent,
\* null, {}, 0, false, '', {id: 1} and {id: 2}
KeyNames == {"getUser", "getUsers", "createPost"}
KeyArgs == {Undef, Null, EmptyObj, Num(0), Bool(FALSE), Str(""), Obj(1), Obj(2)}

\* createCacheKey applied to two endpoint+argument pairs
CallCreateCacheKey(n1, a1, n2, a2) ==
  /\ op' = [name |-> "createCacheKey", tags |-> <<a1, a2>>,
            key |-> <<n1, n2>>,
            result |-> <<createCacheKey(n1, a1), createCacheKey(n2, a2)>>]
  /\ UNCHANGED <<now, defs, stors, store, dep, runs, nruns, last, settled, actions,
                 hooks, api, count>>

NextCacheKey ==
  \E n1 \in KeyNames, n2 \in KeyNames, a1 \in KeyArgs, a2 \in KeyArgs :
    CallCreateCacheKey(n1, a1, n2, a2)

SpecCacheKey == InitWith([q : {PlainDef}, m : {PlainDef}]) /\ [][NextCacheKey]_vars

(* ------------------- create with store-level middlewares -------------- *)
\* The middlewares of the application's store, (set, get) => (next) => ...:
\*   "async"  async (partial) => { pre; await next(partial); post }
\*   "sync"   (partial) => { pre; next(partial); post }
\*   "block"  async (partial) => { pre; return }          (next is not called)
\* defs.smw is the list passed to create.
StoreMwKinds == {"async", "sync", "block"}
StoreChains == UNION {[1..n -> StoreMwKinds] : n \in 0..MaxStoreMiddlewares}

\* an event of a set call: "pre" and "post" of the i-th middleware of the
\* list, and "set" of setState
Ev(e, i) == [e |-> e, i |-> i]
RawSet == 0

\* The effective set called with a partial, up to its return: `order` lists
\* the middlewares from the outermost to the innermost, n is the position in
\* it.  ev are the events in order, q the continuations queued as microtasks
\* (an `await` of a value that is not a pending promise), wait the pairs
\* <<inner, outer>> of an outer middleware awaiting the pending promise of
\* an inner one, promise what the call returned.
RECURSIVE Called(_, _, _)
Called(n, order, middlewares) ==
  IF n > Len(order)
  THEN [ev |-> <<Ev("set", RawSet)>>, q |-> <<>>, wait |-> {}, promise |-> "none"]
  ELSE LET i == order[n]
           inner == Called(n + 1, order, middlewares)
       IN CASE middlewares[i] = "block" ->
                 [ev |-> <<Ev("pre", i)>>, q |-> <<>>, wait |-> {}, promise |-> "resolved"]
            [] middlewares[i] = "sync" ->
                 [ev |-> <<Ev("pre", i)>> \o inner.ev \o <<Ev("post", i)>>,
                  q |-> inner.q, wait |-> inner.wait, promise |-> "none"]
            [] middlewares[i] = "async" ->
                 IF inner.promise = "pending"
                 THEN [ev |-> <<Ev("pre", i)>> \o inner.ev, q |-> inner.q,
                       wait |-> inner.wait \cup {<<order[n + 1], i>>},
                       promise |-> "pending"]
                 ELSE [ev |-> <<Ev("pre", i)>> \o inner.ev, q |-> Append(inner.q, i),
                       wait |-> inner.wait, promise |-> "pending"]

\* the microtasks that follow: the continuation at the head of the queue
\* runs the code after its await and returns, which resolves the promise of
\* its function and queues the continuation awaiting that promise
RECURSIVE Drain(_, _)
Drain(q, wait) ==
  IF q = <<>> THEN <<>>
  ELSE LET h == Head(q)
           outer == {p[2] : p \in {x \in wait : x[1] = h}}
       IN <<Ev("post", h)>>
            \o Drain(Tail(q) \o (IF outer = {} THEN <<>> ELSE <<CHOOSE o \in outer : TRUE>>),
                     wait)

\* mutant: the list is composed with reduce, the first middleware innermost
applyMiddlewareReduce(middlewares) ==
  Called(1, [n \in 1..Len(middlewares) |-> Len(middlewares) + 1 - n], middlewares)

\* applyMiddleware: set for an empty list, else
\* middlewares.reduceRight((next, mw) => mw(set, get)(next), set)
applyMiddleware(middlewares) ==
  IF Len(middlewares) = 0
  THEN Called(1, <<>>, middlewares)
  ELSE Called(1, [n \in 1..Len(middlewares) |-> n], middlewares)

\* the partials the application passes to set: {count: v}, and
\* (state) => ({count: state.count + 1})
Partials == {Num(v) : v \in 0..MaxCount} \cup {[t |-> "function"]}

\* set(partial) of the store created with the middlewares defs.smw, with the
\* microtasks it leaves behind
SetState(partial) ==
  LET c == applyMiddleware(defs.smw)
      trace == c.ev \o Drain(c.q, c.wait)
      partialState == IF partial.t = "function" THEN count + 1 ELSE partial.v
  IN /\ partialState <= MaxCount
     /\ count' = IF \E k \in 1..Len(trace) : trace[k].e = "set" THEN partialState ELSE count
     /\ op' = [name |-> "set", tags |-> trace, key |-> "", result |-> partial]
     /\ last' = NoRun
     /\ UNCHANGED <<now, defs, stors, store, dep, runs, nruns, settled, actions, hooks, api>>

NextStore == \E partial \in Partials : SetState(partial)

SpecStore ==
  InitWith([q : {PlainDef}, m : {PlainDef}, smw : StoreChains]) /\ [][NextStore]_vars

(* ------------------- queryFn with a list of plugins -------------------- *)
\* defs.plugins are the plugins passed to createApi and defs.eplugins those
\* of the endpoint definition, by name; each has the hooks beforeQuery,
\* afterQuery and onError and no middleware.  defs.mw are middlewares that
\* call next() at most once.
GlobalPlugins == {<<>>, <<"global">>}
EndpointPlugins == {<<>>, <<"endpoint">>}
OnceChains == {c \in Chains : \A k \in 1..Len(c) : c[k] # "twice"}

\* p.middleware of the plugins of the model, "none" for a plugin without one.
\* "devtools" is the plugin of the example application, whose middleware is
\* async () => { return {} }; the other two log around `await next()`.
middleware(p) ==
  CASE p = "devtools" -> "short"
    [] p = "globalLog" -> "logGlobalPlugin"
    [] p = "endpointLog" -> "logEndpointPlugin"
    [] OTHER -> "none"

\* plugins.filter(p => p.middleware && typeof p.middleware === "function")
\*        .map(p => p.middleware)
pMiddlewares(plugins) ==
  LET withMw == SelectSeq(plugins, LAMBDA p : middleware(p) # "none")
  IN [k \in 1..Len(withMw) |-> middleware(withMw[k])]

\* mutant: the endpoint's middlewares come first
MiddlewaresEndpointFirst(D) ==
  D.emw \o D.mw \o pMiddlewares(D.eplugins) \o pMiddlewares(D.plugins)

\* [...middlewares, ...(def.middlewares || []), ...pMiddlewares, ...pm]
Middlewares(D) ==
  D.mw \o D.emw \o pMiddlewares(D.eplugins) \o pMiddlewares(D.plugins)

\* mutant: the endpoint's plugins come first
PluginsEndpointFirst(D) == D.eplugins \o D.plugins

\* [...plugins, ...(def.plugins || [])]
Plugins(D) == D.plugins \o D.eplugins

RECURSIVE CallHook(_, _, _, _, _, _, _)
RECURSIVE AfterRunner(_, _, _, _, _)

\* queryFn at the k-th iteration of the loop over the plugins that awaits
\* hook h: the hook is called and awaited, or, past the end of the list,
\* queryFn goes on to what follows the loop
CallHook(p, h, k, plugins, chain, d, t) ==
  IF k <= Len(plugins)
  THEN [p EXCEPT !.r.pc = h, !.r.plugin = k,
                 !.r.trace = Append(@, [h |-> h, p |-> plugins[k]])]
  ELSE CASE h = "beforeQuery" ->
              AfterRunner(runner(p, 0, chain, d, t), plugins, chain, d, t)
         [] h = "afterQuery" ->
              IF Truthy(p.r.result.error)
              THEN CallHook(p, "pluginOnError", 1, plugins, chain, d, t)
              ELSE [p EXCEPT !.r.pc = "done"]
         [] h = "pluginOnError" -> [p EXCEPT !.r.pc = "done"]

\* mutant: queryFn returns the result of runner(0) without calling a hook
AfterRunnerNoHooks(p, plugins, chain, d, t) ==
  IF p.r.pc = "afterQuery" THEN [p EXCEPT !.r.pc = "done"] ELSE p

\* mutant: queryFn never goes on once the promise of runner(0) has resolved
AfterRunnerStuck(p, plugins, chain, d, t) ==
  IF p.r.pc = "afterQuery" THEN [p EXCEPT !.r.pc = "runner"] ELSE p

\* `const result = await runner(0)` when the promise of runner(0) resolved
AfterRunner(p, plugins, chain, d, t) ==
  IF p.r.pc = "afterQuery"
  THEN CallHook([p EXCEPT !.r.trace = Append(@, [h |-> "result", p |-> ""])],
                "afterQuery", 1, plugins, chain, d, t)
  ELSE p

\* the query hook's effect calls query(arg): queryFn up to its first await
PluginsUseQuery(arg) ==
  LET cacheKey == createCacheKey(QName, arg) IN
  /\ dep' = SerArg(arg)
  /\ stors' = stors \cup {cacheKey}
  /\ actions' = IF cacheKey \in stors THEN actions ELSE Append(actions, cacheKey)
  /\ nruns < MaxRuns
  /\ nruns' = nruns + 1
  /\ LET p == CallHook([st |-> store[cacheKey],
                        r |-> NewRun("query", cacheKey, arg, CacheTimeout, FALSE, FALSE)],
                       "beforeQuery", 1, Plugins(defs), Middlewares(defs), DefOf(cacheKey), now)
     IN PipelineRecord(p, 0, 0)
  /\ UNCHANGED <<now, defs, hooks, api, count>>

\* the plugin hook the i-th run awaits resolves
PluginsHookResolves(i) ==
  /\ runs[i].pc \in PluginPcs
  /\ \E p \in {CallHook([st |-> store[runs[i].entry], r |-> runs[i]], runs[i].pc,
                       runs[i].plugin + 1, Plugins(defs), Middlewares(defs),
                       DefOf(runs[i].entry), now)} :
        PipelineRecord(p, i, runs[i].settles)
  /\ UNCHANGED <<now, defs, stors, dep, nruns, actions, hooks, api, count>>

\* the transport of the i-th run resolves: coreFn finishes, its result
\* travels back through the middlewares to queryFn, which goes on
PluginsTransportResolves(i, resp) ==
  /\ runs[i].pc \in TransportPcs
  /\ \E p \in {AfterRunner(CoreReturns(Respond([st |-> store[runs[i].entry], r |-> runs[i]],
                                              DefOf(runs[i].entry), resp, now),
                                      Middlewares(defs), DefOf(runs[i].entry), now),
                          Plugins(defs), Middlewares(defs), DefOf(runs[i].entry), now)} :
        PipelineRecord(p, i, runs[i].settles)
  /\ UNCHANGED <<now, defs, stors, dep, nruns, actions, hooks, api, count>>

NextPlugins ==
  \/ \E arg \in EntryArgs : PluginsUseQuery(arg)
  \/ \E i \in 1..Len(runs) : PluginsHookResolves(i)
  \/ \E i \in 1..Len(runs) : \E resp \in Responses(runs[i].id) :
        PluginsTransportResolves(i, resp)

SpecPlugins ==
  InitWith([q : {PlainDef}, m : {PlainDef}, mw : OnceChains, emw : {<<>>},
            plugins : GlobalPlugins, eplugins : EndpointPlugins]) /\ [][NextPlugins]_vars

(* ------------- queryFn with middlewares of every origin ---------------- *)
\* defs.mw are the middlewares passed to createApi, defs.emw those of the
\* endpoint definition, and the plugins may have a middleware of their own
GlobalMiddlewares == UNION {[1..n -> {"logGlobal", "cached"}] : n \in 0..MaxMiddlewares}
EndpointMiddlewares == {<<>>, <<"logEndpoint">>}
LogGlobalPlugins == {<<>>, <<"globalLog">>}
LogEndpointPlugins == {<<>>, <<"endpointLog">>, <<"devtools">>}

SpecChain ==
  InitWith([q : {PlainDef}, m : {PlainDef}, mw : GlobalMiddlewares,
            emw : EndpointMiddlewares, plugins : LogGlobalPlugins,
            eplugins : LogEndpointPlugins]) /\ [][NextPlugins]_vars

(* ------------------- every run comes to an end ------------------------- *)
\* refetchQuery of the entry, with queryFn as the store's fetch function:
\* set({cashExp: 0}); reFetch()
PluginsRefetchQuery(e) ==
  /\ e \in stors \cap QKeys
  /\ nruns < MaxRuns
  /\ nruns' = nruns + 1
  /\ \E p \in {CallHook([st |-> [store[e] EXCEPT !.cashExp = 0],
                        r |-> NewRun("refetchQuery", e, store[e].arg, CacheTimeout,
                                     TRUE, FALSE)],
                       "beforeQuery", 1, Plugins(defs), Middlewares(defs), DefOf(e), now)} :
        PipelineRecord(p, 0, 0)
  /\ UNCHANGED <<now, defs, stors, dep, actions, hooks, api, count>>

\* a hook of the endpoint that coreFn awaits in the i-th run resolves: coreFn
\* goes on, and when it returns its result travels back through the
\* middlewares to queryFn
PluginsCoreHookResolves(i) ==
  /\ runs[i].pc \in HookPcs
  /\ \E p \in {AfterRunner(CoreReturns(Resume([st |-> store[runs[i].entry], r |-> runs[i]],
                                             DefOf(runs[i].entry), now),
                                      Middlewares(defs), DefOf(runs[i].entry), now),
                          Plugins(defs), Middlewares(defs), DefOf(runs[i].entry), now)} :
        PipelineRecord(p, i, runs[i].settles)
  /\ UNCHANGED <<now, defs, stors, dep, nruns, actions, hooks, api, count>>

\* what coreFn awaits in the i-th run, a hook of the endpoint or the
\* transport, throws (or rejects): coreFn's catch block settles the entry, and
\* coreFn's result travels back through the middlewares to queryFn
PluginsCoreThrows(i) ==
  /\ runs[i].pc \in HookPcs \cup TransportPcs
  /\ \E p \in {AfterRunner(CoreReturns(Throw([st |-> store[runs[i].entry], r |-> runs[i]],
                                            Thrown, now),
                                      Middlewares(defs), DefOf(runs[i].entry), now),
                          Plugins(defs), Middlewares(defs), DefOf(runs[i].entry), now)} :
        PipelineRecord(p, i, runs[i].settles)
  /\ UNCHANGED <<now, defs, stors, dep, nruns, actions, hooks, api, count>>

\* what a run in flight awaits settles: a hook of a plugin, a hook of the
\* endpoint, or the transport, each by resolving or by rejecting
AwaitedSettles ==
  \/ \E i \in 1..Len(runs) : PluginsHookResolves(i)
  \/ \E i \in 1..Len(runs) : PluginHookThrows(i)
  \/ \E i \in 1..Len(runs) : PluginsCoreHookResolves(i)
  \/ \E i \in 1..Len(runs) : \E resp \in Responses(runs[i].id) :
        PluginsTransportResolves(i, resp)
  \/ \E i \in 1..Len(runs) : PluginsCoreThrows(i)

NextLive ==
  \/ \E arg \in EntryArgs : PluginsUseQuery(arg)
  \/ \E e \in QKeys : PluginsRefetchQuery(e)
  \/ AwaitedSettles

\* the middleware lists of the runs that must end: one middleware, which
\* awaits next(), does not call it, or calls it twice
LiveChains == {<<k>> : k \in MwKinds}

\* every awaited plugin hook, endpoint hook and transport call settles
SpecLive ==
  /\ InitWith([q : {TransformDef}, m : {PlainDef}, mw : LiveChains, emw : {<<>>},
               plugins : {<<"global">>}, eplugins : {<<>>}])
  /\ [][NextLive]_vars
  /\ WF_vars(AwaitedSettles)

(* ------------------------- overlapping runs on one entry --------------- *)
\* one query entry with its reFetch, and the mutation entry
NextOverlap ==
  \/ \E arg \in EntryArgs : UseQuery(arg, FALSE)
  \/ \E e \in QKeys : ReFetch(e)
  \/ UseMutation
  \/ \E arg \in MArgs : Mutate(arg)
  \/ \E i \in 1..Len(runs) : HookResolves(i)
  \/ \E i \in 1..Len(runs) : \E resp \in Responses(runs[i].id) : TransportResolves(i, resp)

SpecOverlap ==
  InitWith([q : {PlainDef, TransformDef}, m : {PlainDef, TransformDef}])
    /\ [][NextOverlap]_vars

(* ------------------------------- the registry -------------------------- *)
\* every operation of the API instance that reaches the stors and actions
\* maps: accessor calls, the four utilities and injectEndpoints
NextRegistry ==
  \/ \E arg \in QArgs : RenderQuery(arg, FALSE)
  \/ invalidateTags(TRUE, StaticTags)
  \/ refetchQuery(QName, FetchedArg)
  \/ resetApiState
  \/ updateQueryData(QName, FetchedArg)
  \/ \E e \in InjectedEndpoints : injectEndpoints(e.key, e.type, PlainDef)
  \/ \E i \in 1..Len(runs) : TransportResolves(i, [data |-> Num(runs[i].id), error |-> Undef])

SpecRegistry == InitWith([q : {PlainDef}, m : {PlainDef}]) /\ [][NextRegistry]_vars

(* ----------------------- responses of every value --------------------- *)
\* the values the transport (or the custom query function) resolves {data}
\* with: 0, false, '', 1, true and 'a'
FalsyData == {Num(0), Bool(FALSE), Str("")}
DataValues == FalsyData \cup {Num(1), Bool(TRUE), Str("a")}

NextData ==
  \/ \E arg \in EntryArgs : UseQuery(arg, FALSE)
  \/ \E e \in QKeys : ReFetch(e)
  \/ \E i \in 1..Len(runs) : HookResolves(i)
  \/ \E i \in 1..Len(runs) : \E D \in DataValues :
       TransportResolves(i, [data |-> D, error |-> Undef])

SpecData ==
  InitWith([q : {PlainDef, TransformDef, CustomDef}, m : {PlainDef}]) /\ [][NextData]_vars

(* ------------------------- the tags of an entry ------------------------ *)
\* one query entry of an endpoint with a static providesTags list, with
\* providesTags as a function (of the fetched or of the transformed data), or
\* without providesTags
SpecStoredTags ==
  InitWith([q : {PlainDef, TaggedDef, TransformDef, TaggedTransformDef}, m : {PlainDef}])
    /\ [][NextEntry]_vars

(* ------------------ query entries next to the mutation ----------------- *)
\* two query entries, the entry of a mutation that awaits transformResponse
\* and transformError, and the utilities that refetch
NextFrame ==
  \/ \E arg \in QArgs : UseQuery(arg, FALSE)
  \/ UseMutation
  \/ \E arg \in EntryArgs : Mutate(arg)
  \/ invalidateTags(TRUE, StaticTags)
  \/ resetApiState
  \/ refetchQuery(QName, FetchedArg)
  \/ \E i \in 1..Len(runs) : HookResolves(i)
  \/ \E i \in 1..Len(runs) : \E resp \in Responses(runs[i].id) : TransportResolves(i, resp)

SpecFrame == InitWith([q : {PlainDef}, m : {TransformDef}]) /\ [][NextFrame]_vars

(* --------------- responses that depend on the argument ----------------- *)
\* the transport answers the request built from the run's argument with the
\* record of that argument, or with an error
Payload(r) == [t |-> "object", of |-> r.arg, n |-> r.id]
ArgResponses(r) ==
  {[data |-> Payload(r), error |-> Undef], [data |-> Undef, error |-> Err("E")]}

\* the mutation trigger, called up to MaxRuns + MaxRefetches times
Trigger(arg) ==
  /\ MKey \in stors
  /\ nruns < MaxRuns + MaxRefetches
  /\ Commit(StartIn([World EXCEPT !.last = NoRun], "mutation", MKey, arg,
                    MutationTimeout, FALSE))
  /\ op' = NoOp
  /\ UNCHANGED <<now, defs, stors, dep, actions, hooks, api, count>>

NextProvenance ==
  \/ \E arg \in QArgs : UseQuery(arg, FALSE)
  \/ UseMutation
  \/ \E arg \in MArgs : Trigger(arg)
  \/ \E i \in 1..Len(runs) : \E resp \in ArgResponses(runs[i]) : TransportResolves(i, resp)
  \/ Tick

SpecProvenance == InitWith([q : {PlainDef}, m : {PlainDef}]) /\ [][NextProvenance]_vars

(* ------------------ runs that overlap an invalidation ------------------ *)
\* one query entry whose definition may await hooks, and refetchQuery
NextLifetime ==
  \/ \E arg \in EntryArgs : UseQuery(arg, FALSE)
  \/ refetchQuery(QName, FetchedArg)
  \/ \E i \in 1..Len(runs) : HookResolves(i)
  \/ \E i \in 1..Len(runs) : \E resp \in Responses(runs[i].id) : TransportResolves(i, resp)
  \/ Tick

SpecLifetime ==
  InitWith([q : {PlainDef, TransformDef, CallbackDef}, m : {PlainDef}])
    /\ [][NextLifetime]_vars

(* ================================ claims =============================== *)
\* the runs the history can talk about: those in flight and the one that
\* returned in the latest step
Live == {runs[i] : i \in 1..Len(runs)} \cup (IF last.id = 0 THEN {} ELSE {last})

IsData(res) == res.data # Undef

\* the run that just returned follows, with nothing in between, a settle on
\* the same entry that fetched data for the same argument
FollowsFetch(r) ==
  /\ r.prev.some
  /\ IsData(r.prev)
  /\ r.prev.calls = 1
  /\ r.prev.arg = r.arg

\* C1 (as claimed): a query run with an identical argument, started after a
\* successful fetch settled and no more than T ms later, with no other run in
\* between, calls the transport not at all (one call in total) and resolves
\* with the data the first run resolved with.
C1CacheHit ==
  (last.kind = "query" /\ FollowsFetch(last) /\ last.withinT)
    => (last.calls = 0 /\ last.result.data = last.prev.data)

\* C2: a run is decided to be served from the cache exactly when it is not
\* forced, the serialized argument equals the serialized stored argument and
\* cashExp >= now; a run that has returned made no transport or custom
\* function call exactly when it was decided to be served from the cache.
C2CacheDecision ==
  \A r \in Live :
    /\ r.isCashAvilable <=>
         (~r.isRefetch /\ SerArg(r.arg) = SerArg(r.seenArg) /\ r.inWindow)
    /\ r.isCashAvilable => r.calls = 0
    /\ r.pc = "done" => (r.calls = 0 <=> r.isCashAvilable)

C2Witness ==
  /\ last.kind = "query"
  /\ last.isCashAvilable
  /\ last.calls = 0
  /\ IsData(last.result)

\* C3 (as claimed): a query run started because the hook's argument differs
\* from the argument of the previous call always calls the transport.
C3ArgChangeCallsTransport ==
  last.argChanged => last.calls >= 1

\* C3 (amended): a query run started because the hook's argument differs from
\* the argument of the previous call calls the transport (or the custom
\* function) unless the entry of the new argument was last written for that
\* argument and has not expired (cashExp >= now).
C3ArgChangeAmended ==
  (last.argChanged /\ ~(SerArg(last.arg) = SerArg(last.seenArg) /\ last.inWindow))
    => last.calls >= 1

C3Witness ==
  /\ last.argChanged
  /\ last.prev.some
  /\ SerArg(last.arg) = SerArg(last.seenArg)
  /\ ~last.inWindow
  /\ last.calls = 1

\* C4: every reFetch() run calls the transport (or the custom function), also
\* when the entry is inside its cache window, and when it resolves {data} the
\* entry's cashExp is the settle time + T.
C4ReFetchForces ==
  last.kind = "reFetch" =>
    /\ last.calls >= 1
    /\ IsData(last.result) => store[last.entry].cashExp = now + CacheTimeout

C4Witness ==
  /\ last.kind = "reFetch"
  /\ last.inWindow
  /\ SerArg(last.arg) = SerArg(last.seenArg)
  /\ IsData(last.result)
  /\ store[last.entry].cashExp > last.cashTime

\* C5 (as claimed): of two sequential invocations of the mutation with
\* identical arguments (the second started after the first settled, at any
\* time), both call the transport.
C5MutationNeverCached ==
  (last.kind = "mutation" /\ last.prev.some /\ last.prev.arg = last.arg)
    => (last.prev.calls >= 1 /\ last.calls >= 1)

\* C6 (as claimed): when the transport resolved {error: E}, the entry settles
\* with isError, error = transformError(E) if defined else E, not isSuccess,
\* and no data.
C6ErrorSettle ==
  last.rawError # Undef =>
    LET st == store[last.entry] IN
      /\ st.isError
      /\ st.error = IF DefOf(last.entry).transformError
                    THEN transformError(last.rawError, Null) ELSE last.rawError
      /\ ~st.isSuccess
      /\ st.data \in {Null, Undef}

\* C7 (as claimed): an entry that has settled and has no run in flight has
\* exactly one of isSuccess and isError.
C7SettledXor ==
  \A e \in Entries :
    (settled[e].some /\ InFlight(e) = {}) => (store[e].isSuccess # store[e].isError)

\* C8 (as claimed): while a run on an entry has started and not settled, the
\* entry's isSuccess and isError are both false.
C8InFlightFlags ==
  \A e \in Entries :
    InFlight(e) # {} => (~store[e].isSuccess /\ ~store[e].isError)

\* C9 (as claimed): isLoading is true while some run on the entry has started
\* and not settled, and false once every started run has settled.
C9Loading ==
  \A e \in Entries :
    /\ InFlight(e) # {} => store[e].isLoading
    /\ InFlight(e) = {} => ~store[e].isLoading

\* C10 (as claimed): whenever isFetching is true a transport (or custom
\* function) call for the entry is in flight, and a run served from the cache
\* never sets isFetching.
C10Fetching ==
  /\ \A e \in Entries :
       store[e].isFetching =>
         \E i \in InFlight(e) : runs[i].pc \in TransportPcs
  /\ \A r \in Live : r.isCashAvilable => ~r.fetching

\* C10 (amended): whenever isFetching is true, a run on the entry that has
\* made its transport (or custom function) call has not settled yet (the call
\* is in flight or its response is still being processed by the endpoint's
\* hooks), and a run served from the cache never sets isFetching.
C10FetchingAmended ==
  /\ \A e \in Entries :
       store[e].isFetching =>
         \E i \in InFlight(e) : runs[i].calls >= 1
  /\ \A r \in Live : r.isCashAvilable => ~r.fetching

C10Witness ==
  \E e \in Entries :
    /\ store[e].isFetching
    /\ \E i \in InFlight(e) : runs[i].calls >= 1 /\ runs[i].pc \in HookPcs
    /\ \A i \in InFlight(e) : runs[i].pc \notin TransportPcs

\* C11 (as claimed): tagMatches(i, q) is true exactly when both tags are
\* strings and equal, or both are objects with equal type and i either
\* specifies no id or i.id equals q.id; string against object is false.
C11TagMatches ==
  op.name = "tagMatches" =>
    LET i == op.tags[1]
        q == op.tags[2]
    IN op.result <=>
         \/ i.t = "string" /\ q.t = "string" /\ i.v = q.v
         \/ /\ i.t = "object" /\ q.t = "object"
            /\ i.type = q.type
            /\ (i.id = Undef \/ StrictEq(i.id, q.id))

\* some tag of the list matches some tag stored in the entry's state
Matched(tags, state) ==
  /\ Truthy(state.tags)
  /\ \E i \in 1..Len(tags) : \E j \in 1..Len(state.tags.items) :
       tagMatches(tags[i], state.tags.items[j])

\* the runs on entry e that the step started
StartedOn(e) == {i \in 1..Len(runs') : runs'[i].id > nruns /\ runs'[i].entry = e}

\* the step left the runs on entry e as they were
SameRunsOn(e) ==
  /\ StartedOn(e) = {}
  /\ \A i \in 1..Len(runs) : runs[i].entry = e => runs[i] \in {runs'[j] : j \in 1..Len(runs')}

\* C12: invalidateTags(tags) sets cashExp of every registered query entry
\* that stores a tag matched by a tag of the list to the past and starts
\* exactly one forced run on it, with the entry's stored argument, which
\* calls the transport.
C12InvalidateRefetches ==
  [][op'.name = "invalidateTags" =>
       \A e \in Registered :
         Matched(op'.tags, store[e]) =>
           /\ store'[e].cashExp < now
           /\ Cardinality(StartedOn(e)) = 1
           /\ \A i \in StartedOn(e) :
                /\ runs'[i].arg = store[e].arg
                /\ runs'[i].isRefetch
                /\ runs'[i].calls = 1]_vars

C12Witness ==
  /\ op.name = "invalidateTags"
  /\ Len(op.tags) = 2
  /\ \E e \in Registered :
       /\ \A n \in 1..Len(op.tags) : Matched(<<op.tags[n]>>, store[e])
       /\ store[e].cashExp = 0
       /\ \E i \in InFlight(e) :
            runs[i].kind = "invalidateTags" /\ runs[i].id = nruns /\ runs[i].arg = store[e].arg

\* C13: invalidateTags(tags) leaves every entry none of whose stored tags is
\* matched by a tag of the list as it was (state and runs), and with an
\* empty or absent list it changes no entry and starts no run.
C13InvalidateFrame ==
  [][op'.name = "invalidateTags" =>
       /\ \A e \in Entries :
            ~Matched(op'.tags, store[e]) => (store'[e] = store[e] /\ SameRunsOn(e))
       /\ (~op'.result \/ Len(op'.tags) = 0) =>
            (store' = store /\ runs' = runs /\ nruns' = nruns)]_vars

C13Witness ==
  /\ op.name = "invalidateTags"
  /\ \E e1 \in Registered, e2 \in Registered :
       /\ \E i \in InFlight(e1) : runs[i].kind = "invalidateTags" /\ runs[i].id = nruns
       /\ Truthy(store[e2].tags)
       /\ ~Matched(op.tags, store[e2])
       /\ InFlight(e2) = {}
       /\ store[e2].cashExp > now

\* C15: updateQueryData(name, arg, updater) replaces data of the registered
\* entry under the key of (name, arg) by updater(data) and changes nothing
\* else: no other field, no other entry, no run, no store is created; for a
\* key without a registered entry nothing changes.
C15UpdateOnlyData ==
  [][op'.name = "updateQueryData" =>
       /\ op'.key \in Registered =>
            store' = [store EXCEPT ![op'.key].data = updater(store[op'.key].data)]
       /\ op'.key \notin Registered => store' = store
       /\ runs' = runs
       /\ nruns' = nruns
       /\ stors' = stors
       /\ actions' = actions]_vars

C15Witness ==
  /\ op.name = "updateQueryData"
  /\ op.key \in Registered
  /\ store[op.key].data = updater(Num(1))
  /\ store[op.key].isSuccess
  /\ store[op.key].cashExp >= now

\* the step brings a mutation run to its onSuccess call
EntersOnSuccess ==
  \E j \in 1..Len(runs') :
    /\ runs'[j].kind = "mutation"
    /\ runs'[j].pc = "onSuccess"
    /\ ~\E i \in 1..Len(runs) : runs[i].id = runs'[j].id /\ runs[i].pc = "onSuccess"

\* C14: a mutation run resolves {data} only after its onSuccess call, and the
\* step of that call sets cashExp of every registered query entry that stores
\* the tag to the past and starts exactly one forced run on it, with the
\* entry's stored argument, which calls the transport.
C14MutationInvalidates ==
  [][/\ (last'.kind = "mutation" /\ IsData(last'.result)) =>
          \E i \in 1..Len(runs) : runs[i].id = last'.id /\ runs[i].pc = "onSuccess"
     /\ EntersOnSuccess =>
          \A e \in Registered :
            Matched(OnSuccessTags, store[e]) =>
              /\ store'[e].cashExp < now
              /\ Cardinality(StartedOn(e)) = 1
              /\ \A i \in StartedOn(e) :
                   /\ runs'[i].arg = store[e].arg
                   /\ runs'[i].isRefetch
                   /\ runs'[i].calls = 1]_vars

C14Witness ==
  /\ last.kind = "mutation"
  /\ IsData(last.result)
  /\ last.calls = 1
  /\ \E e \in Registered :
       /\ settled[e].some
       /\ IsData(settled[e])
       /\ store[e].cashExp = 0
       /\ \E i \in InFlight(e) : runs[i].kind = "invalidateTags" /\ runs[i].calls = 1

\* where the claims speak of an exception: the request side and the success
\* side of coreFn, and its error side
RequestAndSuccessPcs ==
  {"queryFn", "queryFnc", "transformHeader", "transformBody", "baseQuery",
   "transformResponse", "onSuccess"}
ErrorHookPcs == {"transformError", "onError"}

\* a run that returned resolved {data} or {error}
Resolved(r) == r.pc = "done" /\ (IsData(r.result) # (r.result.error # Undef))

\* the exception of run r became the error of its entry and of its result
CaughtAndStored(r) ==
  /\ Resolved(r)
  /\ r.result.error = r.thrown
  /\ store[r.entry].isError
  /\ ~store[r.entry].isLoading
  /\ ~store[r.entry].isFetching
  /\ store[r.entry].error = r.thrown

\* C16: no run rejects: a run that returned resolved {data} or {error}, for
\* every transport outcome; when buildRequest, the custom function, a request
\* transform, the transport, transformResponse or onSuccess threw, the entry
\* settled with isError, not isLoading, not isFetching and the exception as
\* error.
C16NeverRejects ==
  /\ \A r \in Live : r.pc # "rejected"
  /\ last.id # 0 => Resolved(last)
  /\ last.thrownAt \in RequestAndSuccessPcs => CaughtAndStored(last)

C16Witness ==
  /\ last.thrownAt = "onSuccess"
  /\ last.calls = 1
  /\ last.rawError = Undef
  /\ CaughtAndStored(last)

\* C17 (as claimed): an exception thrown inside transformError or onError
\* makes the run reject, and is not written to the entry as its error.
C17ErrorHookThrowPropagates ==
  last.thrownAt \in ErrorHookPcs =>
    (last.pc = "rejected" /\ store[last.entry].error # last.thrown)

\* C17 (amended): an exception thrown inside transformError or onError is
\* caught by coreFn as every other exception: the run resolves {error} with
\* the exception, which is written to the entry as its error.
C17ErrorHookThrowCaught ==
  last.thrownAt \in ErrorHookPcs => CaughtAndStored(last)

C17Witness ==
  /\ last.thrownAt = "onError"
  /\ last.rawError # Undef
  /\ CaughtAndStored(last)

\* some middleware of the list calls next() a second time: a "twice" that no
\* "short" before it keeps from being called
SecondNext(chain) ==
  \E k \in 1..Len(chain) :
    chain[k] = "twice" /\ \A j \in 1..(k - 1) : chain[j] # "short"

C19Rejected ==
  last.thrownAt \in PluginPcs =>
    /\ last.pc = "rejected"
    /\ last.thrown = PluginError
    /\ last.result.error # PluginError
    /\ store[last.entry].error # PluginError
    /\ last.thrownAt = "beforeQuery" =>
         (last.index = -1 /\ last.coreCalls = 0 /\ last.calls = 0)

\* C19, the step part: neither the start of a run nor the rejection of its
\* beforeQuery changes a store
C19EntryUnchanged ==
  /\ (\E j \in 1..Len(runs') : runs'[j].id > nruns /\ runs'[j].pc = "beforeQuery")
       => store' = store
  /\ last'.thrownAt = "beforeQuery" => store' = store

\* C19: if a plugin's beforeQuery, afterQuery or onError hook throws, the run
\* rejects with that exception, which is not converted into an {error} result
\* and not written to the entry; when the hook is beforeQuery, the middleware
\* chain, coreFn and the transport are not invoked and the run leaves the
\* entry unchanged.
C19PluginThrowPropagates == []C19Rejected /\ [][C19EntryUnchanged]_vars

C19Witness ==
  /\ last.thrownAt = "afterQuery"
  /\ last.pc = "rejected"
  /\ last.calls = 1
  /\ store[last.entry].isSuccess
  /\ store[last.entry].error = Null

\* C20 (as claimed): the entry of an argument the query hook was only ever
\* called with together with skip = true stays in its initial state, and no
\* run is started on it, over any sequence of invalidateTags, resetApiState,
\* and refetchQuery and updateQueryData on other keys.
C20SkipNeverExecutes ==
  LET k == createCacheKey(QName, SkippedArg) IN
  /\ store[k] = InitialState
  /\ InFlight(k) = {}
  /\ ~settled[k].some

\* the step started a run on entry e
TriggeredOn(e) == StartedOn(e) # {} \/ (last'.id > nruns /\ last'.entry = e)

\* C21 (as claimed): when the accessor of a mounted component that was called
\* with skip = true is called again with the same argument and skip = false,
\* a pipeline run is started on the entry of that key.
C21SkipLifted ==
  [][(/\ op.name = "useQuery" /\ op.result
      /\ op'.name = "useQuery" /\ ~op'.result
      /\ op'.tags = op.tags) => TriggeredOn(op'.key)]_vars

\* C22 (as claimed): when the accessor of a mounted component is called again
\* with an argument whose cache key differs from the key of its previous call
\* and skip is not true, a pipeline run is started on the entry of the new
\* key.
C22KeyChangeTriggers ==
  [][(/\ op.name = "useQuery"
      /\ op'.name = "useQuery" /\ ~op'.result
      /\ op'.key # op.key) => TriggeredOn(op'.key)]_vars

\* C24 (as claimed): after injectEndpoints registered an endpoint, the object
\* createApi returned has an accessor of the endpoint's name.
C24InjectedAccessorExposed ==
  op.name = "injectEndpoints" => op.key \in api

\* C23 (as claimed): a run started by reFetch() or by refetchQuery(name, arg)
\* has the argument the accessor of its entry was called with (the argument
\* whose cache key is the entry's key), at whatever moment it is started.
C23RefetchSameArg ==
  \A r \in Live :
    r.kind \in {"reFetch", "refetchQuery"} => createCacheKey(QName, r.arg) = r.entry

\* C25: resetApiState() sets cashExp of every registered query entry to the
\* past and starts exactly one forced run on it, which calls the transport,
\* whatever the entry's state and tags; it starts no run on any other entry.
C25ResetRefetchesAll ==
  [][op'.name = "resetApiState" =>
       /\ \A e \in Registered :
            /\ store'[e].cashExp < now
            /\ Cardinality(StartedOn(e)) = 1
            /\ \A i \in StartedOn(e) : runs'[i].isRefetch /\ runs'[i].calls = 1
       /\ \A e \in Entries \ Registered : StartedOn(e) = {}]_vars

\* resetApiState has just refetched an entry that had succeeded and was
\* inside its cache window, and an entry that had never run
C25Witness ==
  /\ op.name = "resetApiState"
  /\ \E e1 \in Registered, e2 \in Registered :
       /\ IsData(settled[e1])
       /\ store[e1].isSuccess
       /\ store[e1].cashExp = 0
       /\ \E i \in InFlight(e1) : runs[i].kind = "resetApiState" /\ runs[i].calls = 1
       /\ ~settled[e2].some
       /\ store[e2].data = Null
       /\ \A i \in InFlight(e2) : runs[i].kind = "resetApiState" /\ runs[i].calls = 1
       /\ InFlight(e2) # {}

\* C26: the registry is append-only: over every step (accessor calls,
\* invalidateTags, refetchQuery, resetApiState, updateQueryData,
\* injectEndpoints, settles) every key that has a store keeps it, registered
\* at the same place and once; an accessor call for a key that has a store
\* adds nothing to the registry and reads the existing entry (its data,
\* argument and expiry are those of before the call).
C26RegistryAppendOnly ==
  [][/\ stors \subseteq stors'
     /\ Len(actions') >= Len(actions)
     /\ SubSeq(actions', 1, Len(actions)) = actions
     /\ \A m, n \in 1..Len(actions') : actions'[m] = actions'[n] => m = n
     /\ (op'.name = "useQuery" /\ op'.key \in stors) =>
          /\ stors' = stors
          /\ actions' = actions
          /\ store'[op'.key].data = store[op'.key].data
          /\ store'[op'.key].arg = store[op'.key].arg
          /\ store'[op'.key].cashExp = store[op'.key].cashExp]_vars

\* an accessor call for a key whose entry holds fetched data, next to a
\* second registered key
C26Witness ==
  /\ op.name = "useQuery"
  /\ Len(actions) = 2
  /\ IsData(settled[op.key])
  /\ store[op.key].data = settled[op.key].data
  /\ store[op.key].isSuccess

\* C27 (as claimed): createCacheKey(n1, a1) = createCacheKey(n2, a2) only
\* if n1 = n2 and a1 = a2, and equal pairs give the same key.
C27KeyPerPair ==
  op.name = "createCacheKey" =>
    (op.result[1] = op.result[2] <=> (op.key[1] = op.key[2] /\ op.tags[1] = op.tags[2]))

\* the argument with absent and null read as {}
OrEmpty(a) == IF a \in {Undef, Null} THEN EmptyObj ELSE a

\* C27 (amended): createCacheKey(n1, a1) = createCacheKey(n2, a2) exactly
\* when n1 = n2 and a1 and a2 are equal once an absent or null argument is
\* read as {}: absent, null and {} share one key, and 0, false, '' and every
\* non-empty object have a key of their own.
C27KeyPerNormalizedPair ==
  op.name = "createCacheKey" =>
    (op.result[1] = op.result[2]
       <=> (op.key[1] = op.key[2] /\ OrEmpty(op.tags[1]) = OrEmpty(op.tags[2])))

\* an absent and a null argument of one endpoint got the same key, which is
\* not the key of 0
C27Witness ==
  /\ op.name = "createCacheKey"
  /\ op.key[1] = op.key[2]
  /\ op.tags = <<Undef, Null>>
  /\ op.result[1] = op.result[2]
  /\ op.result[1] # createCacheKey(op.key[1], Num(0))

\* the events of the latest set call that are "post" events
Posts == SelectSeq(op.tags, LAMBDA x : x.e = "post")

\* the latest set call reached setState
ReachedSet == \E k \in 1..Len(op.tags) : op.tags[k].e = "set"

\* the set call is seen by the first middleware first and by the last one
\* last, and then setState runs; with an empty list only setState runs
SeenInListOrder ==
  LET N == Len(defs.smw) IN
  /\ ReachedSet =>
       /\ \A k \in 1..N : op.tags[k] = Ev("pre", k)
       /\ op.tags[N + 1] = Ev("set", RawSet)
       /\ count = IF op.result.t = "function" THEN count ELSE op.result.v
  /\ N = 0 => op.tags = <<Ev("set", RawSet)>>

\* the code after next() ran in the reverse order of the list
PostsReversed == \A k \in 1..(Len(Posts) - 1) : Posts[k].i > Posts[k + 1].i

\* C28 (as claimed): every set call is seen by mw1 first and by mwN last
\* before setState runs, the code after next() runs in the reverse order, and
\* with an empty list the set is setState.
C28CompositionOrder ==
  op.name = "set" => (SeenInListOrder /\ PostsReversed)

\* a middleware that calls next() without awaiting it is outside one that
\* awaits it, and both are reached
SyncOutsideAsync ==
  \E i, j \in 1..Len(defs.smw) :
    /\ i < j
    /\ defs.smw[i] = "sync"
    /\ defs.smw[j] = "async"
    /\ \A k \in 1..(j - 1) : defs.smw[k] # "block"

\* C28 (amended): every set call is seen by mw1 first and by mwN last before
\* setState runs, and with an empty list the set is setState; the code after
\* next() runs in the reverse order exactly when no middleware that calls
\* next() without awaiting it is outside a middleware that awaits next().
C28CompositionOrderAmended ==
  op.name = "set" => (SeenInListOrder /\ (PostsReversed <=> ~SyncOutsideAsync))

\* two middlewares that await next(): the inner one's code after next() ran
\* first
C28Witness ==
  /\ op.name = "set"
  /\ defs.smw = <<"async", "async">>
  /\ Len(op.tags) = Len(defs.smw) + 1 + Len(defs.smw)
  /\ ReachedSet
  /\ Len(Posts) = Len(defs.smw)
  /\ PostsReversed
  /\ count = MaxCount

\* C29: when a run settles and leaves no other run on its entry in flight
\* (every run on the entry has settled, this one last), the entry's data is
\* the run's data if it resolved {data}, and the entry's error the run's
\* error if it resolved {error}, whatever the order the runs started in.
C29LastSettleWins ==
  (last.id # 0 /\ InFlight(last.entry) = {}) =>
    /\ IsData(last.result) => store[last.entry].data = last.result.data
    /\ ~IsData(last.result) => store[last.entry].error = last.result.error

\* of two overlapping runs on one entry the one that started second failed
\* first, and the one that started first then resolved {data}
C29Witness ==
  /\ last.id < nruns
  /\ runs = <<>>
  /\ last.prev = NoSettle
  /\ IsData(last.result)
  /\ store[last.entry].data = last.result.data
  /\ Truthy(store[last.entry].error)
  /\ \A e \in Entries \ {last.entry} : ~settled[e].some

\* the phase of an event of a run's trace
Phase(ev) ==
  CASE ev.h = "beforeQuery" -> "a"
    [] ev.h = "result" -> "b"
    [] ev.h = "afterQuery" -> "c"
    [] ev.h = "pluginOnError" -> "d"
PhaseOrder == <<"a", "b", "c", "d">>
PhaseNo(ev) == CHOOSE n \in 1..Len(PhaseOrder) : PhaseOrder[n] = Phase(ev)

\* the number of events of hook h in the trace, and the number of plugins
HookCalls(tr, h) == Cardinality({k \in 1..Len(tr) : tr[k].h = h})
NPlugins == Len(defs.plugins) + Len(defs.eplugins)

\* the trace keeps the order of the phases, and inside a phase the order of
\* the list: a global plugin before the endpoint's, each hook once
InPhaseOrder(tr) ==
  \A j, k \in 1..Len(tr) :
    j < k =>
      /\ PhaseNo(tr[j]) <= PhaseNo(tr[k])
      /\ tr[j].h = tr[k].h => (tr[j].p = "global" /\ tr[k].p = "endpoint")

\* C30: in every pipeline run the plugins' beforeQuery hooks are awaited one
\* after another in list order (global, then endpoint) before any middleware
\* starts; coreFn starts only after every middleware has called next();
\* every afterQuery hook runs after the result of the chain is available,
\* in list order; the onError hooks run only after all afterQuery hooks and
\* only when the result carries an error.
C30PhaseOrder ==
  \A r \in Live :
    /\ InPhaseOrder(r.trace)
    /\ r.pc = "beforeQuery" => (r.index = -1 /\ r.coreCalls = 0)
    /\ r.index >= 0 => HookCalls(r.trace, "beforeQuery") = NPlugins
    /\ r.coreCalls >= 1 =>
         (r.index = Len(defs.mw) /\ \A k \in 1..Len(defs.mw) : defs.mw[k] = "pass")
    /\ HookCalls(r.trace, "afterQuery") >= 1 => HookCalls(r.trace, "result") = 1
    /\ HookCalls(r.trace, "pluginOnError") >= 1 =>
         (HookCalls(r.trace, "afterQuery") = NPlugins /\ Truthy(r.result.error))
    /\ r.pc = "done" =>
         /\ HookCalls(r.trace, "afterQuery") = NPlugins
         /\ HookCalls(r.trace, "pluginOnError") =
              IF Truthy(r.result.error) THEN NPlugins ELSE 0

\* a run with a global and an endpoint plugin and two middlewares whose
\* transport failed has returned after all six hooks
C30Witness ==
  /\ last.pc = "done"
  /\ Len(defs.mw) = MaxMiddlewares
  /\ last.calls = 1
  /\ Truthy(last.result.error)
  /\ defs.plugins = <<"global">>
  /\ defs.eplugins = <<"endpoint">>
  /\ HookCalls(last.trace, "beforeQuery") = NPlugins
  /\ HookCalls(last.trace, "afterQuery") = NPlugins
  /\ HookCalls(last.trace, "pluginOnError") = NPlugins
  /\ last.trace[Len(last.trace)] = [h |-> "pluginOnError", p |-> "endpoint"]

\* where a middleware of the model comes from: 1 the list passed to
\* createApi, 2 the endpoint definition, 3 a plugin
Origin(m) ==
  CASE m \in {"logGlobal", "cached"} -> 1
    [] m = "logEndpoint" -> 2
    [] OTHER -> 3

\* the middlewares of origin o the run entered, in the order it entered them
Entered(tr, o) ==
  LET pre == SelectSeq(tr, LAMBDA x : x.e = "pre" /\ Origin(x.m) = o)
  IN [k \in 1..Len(pre) |-> pre[k].m]

IsPrefix(a, b) == Len(a) <= Len(b) /\ a = SubSeq(b, 1, Len(a))

\* the number of middlewares the plugins of the API and of the endpoint provide
NPluginMiddlewares ==
  Cardinality({k \in 1..Len(defs.plugins) : defs.plugins[k] \in {"globalLog", "devtools"}})
    + Cardinality({k \in 1..Len(defs.eplugins) :
                     defs.eplugins[k] \in {"endpointLog", "devtools"}})

\* C31: the middleware chain of a run is entered in the order global,
\* endpoint-level, plugin-provided middlewares, each list in its own order:
\* the code of a middleware before next() runs before the next middleware
\* starts, coreFn starts after every middleware was entered, and the code
\* after next() runs after the inner middlewares have returned (innermost
\* first) and coreFn, when it was called, has resolved.
C31ChainOrder ==
  \A r \in Live :
    LET tr == r.mtrace IN
    /\ \A j, k \in 1..Len(tr) :
         j < k =>
           /\ (tr[j].e = "pre" /\ tr[k].e = "pre") =>
                (tr[k].i = tr[j].i + (k - j) /\ Origin(tr[j].m) <= Origin(tr[k].m))
           /\ (tr[j].e = "post" /\ tr[k].e = "post") => tr[j].i > tr[k].i
           /\ tr[j].e = "post" => tr[k].e = "post"
    /\ IsPrefix(Entered(tr, 1), defs.mw)
    /\ IsPrefix(Entered(tr, 2), defs.emw)
    /\ Len(Entered(tr, 1)) < Len(defs.mw) => (Entered(tr, 2) = <<>> /\ Entered(tr, 3) = <<>>)
    /\ Len(Entered(tr, 2)) < Len(defs.emw) => Entered(tr, 3) = <<>>
    /\ Len(Entered(tr, 3)) <= NPluginMiddlewares
    /\ r.coreCalls >= 1 =>
         Len(SelectSeq(tr, LAMBDA x : x.e = "pre"))
           = Len(defs.mw) + Len(defs.emw) + NPluginMiddlewares
    /\ (\E k \in 1..Len(tr) : tr[k].e = "post") => r.settles = r.coreCalls
    /\ r.pc \in TransportPcs => \A k \in 1..Len(tr) : tr[k].e = "pre"

\* a run through two global middlewares, one of the endpoint and one of each
\* plugin has returned the transport's data after all five ran their code
\* after next()
C31Witness ==
  /\ last.pc = "done"
  /\ last.calls = 1
  /\ IsData(last.result)
  /\ Len(defs.mw) = MaxMiddlewares
  /\ Len(defs.emw) = 1
  /\ NPluginMiddlewares = 2
  /\ Len(last.mtrace) = 2 * (Len(defs.mw) + Len(defs.emw) + NPluginMiddlewares)
  /\ last.mtrace[1].m = "logGlobal"
  /\ last.mtrace[Len(last.mtrace)] = Mw("post", 1, "logGlobal")

\* a middleware of the run returned without calling next(): the run entered
\* the middleware at position index + 1 and runner was not called again
ShortCircuited(r) ==
  \E k \in 1..Len(r.mtrace) : r.mtrace[k].e = "pre" /\ r.mtrace[k].i = r.index + 1

\* the middleware of the run that returned without calling next()
ShortCircuiter(r) ==
  (CHOOSE x \in {r.mtrace[k] : k \in 1..Len(r.mtrace)} :
     x.e = "pre" /\ x.i = r.index + 1).m

\* C32: in every step of a run in which a middleware returned without calling
\* next(), no store changes (isLoading is never set), no inner middleware was
\* entered, coreFn and the transport were not called, the result of the chain
\* is the value the middleware returned, and the run returns it only after
\* every afterQuery hook was called with it.
C32ShortCircuit ==
  [][\A r \in Live' :
       (r \notin Live /\ ShortCircuited(r)) =>
         /\ store' = store
         /\ r.coreCalls = 0
         /\ r.calls = 0
         /\ \A k \in 1..Len(r.mtrace) : r.mtrace[k].i <= r.index + 1
         /\ r.pc \in {"afterQuery", "pluginOnError", "done"}
         /\ r.result = IF ShortCircuiter(r) = "cached"
                       THEN [data |-> r.result.data, error |-> Undef]
                       ELSE [data |-> Undef, error |-> Undef]
         /\ (ShortCircuiter(r) = "cached" /\ ~\E x \in Live : x.id = r.id /\ ShortCircuited(x)) =>
              (Truthy(store[r.entry].data) /\ r.result.data = store[r.entry].data)
         /\ \A x \in Live : (x.id = r.id /\ ShortCircuited(x)) => r.result = x.result
         /\ HookCalls(r.trace, "afterQuery") >= 1 => HookCalls(r.trace, "result") = 1
         /\ r.pc = "done" => HookCalls(r.trace, "afterQuery") = NPlugins]_vars

\* a run whose second middleware returned the entry's data without calling
\* next() has returned that data after the afterQuery hooks of two plugins,
\* and the entry is as the fetch before it left it
C32Witness ==
  /\ last.pc = "done"
  /\ ShortCircuited(last)
  /\ ShortCircuiter(last) = "cached"
  /\ last.index = 1
  /\ last.mtrace[Len(last.mtrace)] = Mw("post", 1, "logGlobal")
  /\ Len(defs.emw) = 1
  /\ NPlugins = 2
  /\ HookCalls(last.trace, "afterQuery") = NPlugins
  /\ last.coreCalls = 0
  /\ last.result.data = store[last.entry].data
  /\ store[last.entry].isSuccess
  /\ ~store[last.entry].isLoading
  /\ settled[last.entry].calls = 1

\* C33 (as claimed): whenever the transport (or the custom function) resolved
\* {data: D}, for D among 0, false, '', 1, true and 'a', the entry settles
\* with isSuccess and data = D (after transformResponse if defined) and the
\* run resolves {data}.
C33DataSucceeds ==
  (last.id # 0 /\ last.rawData # Undef) =>
    LET D == IF DefOf(last.entry).transformResponse
             THEN transformResponse(last.rawData, Null) ELSE last.rawData
    IN /\ store[last.entry].isSuccess
       /\ store[last.entry].data = D
       /\ last.result = [data |-> D, error |-> Undef]

\* C34 (as claimed): a run served from the cache calls neither the transport
\* nor the custom function and resolves {data} with the stored data, leaving
\* the entry settled as a success, for every shape of endpoint definition.
C34CacheHitEveryShape ==
  (last.id # 0 /\ last.isCashAvilable) =>
    /\ last.calls = 0
    /\ IsData(last.result)
    /\ last.prev.some => last.result.data = last.prev.data
    /\ store[last.entry].isSuccess
    /\ ~store[last.entry].isError

\* C35 (as claimed): the settle of a run served from the cache leaves the
\* entry's cashExp as it was immediately before the settle, also when the
\* entry was invalidated or written by another run while the run awaited a
\* hook; a successful run that called the transport sets it to its settle
\* time + T.
C35CacheRunKeepsExpiry ==
  [][/\ (last'.id # 0 /\ last'.isCashAvilable /\ IsData(last'.result)) =>
          store'[last'.entry].cashExp = store[last'.entry].cashExp
     /\ (last'.id # 0 /\ last'.calls >= 1 /\ IsData(last'.result)) =>
          store'[last'.entry].cashExp = now + CacheTimeout]_vars

\* the tags the claim expects of an endpoint definition and a run's data
ExpectedTags(d, data) ==
  CASE d.providesTags = "static" -> Arr(<<Str("users")>>)
    [] d.providesTags = "function" -> Arr(<<TagObj("users", data)>>)
    [] OTHER -> Null

\* C36: a step in which a run on an entry returns {data} leaves the entry's
\* tags as those computed from that run: the static providesTags list,
\* providesTags applied to the run's (transformed) data, or none without
\* providesTags; every other step, a failed settle among them, leaves the
\* entry's tags unchanged.  Hence after any sequence of runs the stored tags
\* are those of the most recent successful settle.
C36StoredTags ==
  [][\A e \in Entries :
       IF last'.id # 0 /\ last'.entry = e /\ IsData(last'.result)
       THEN store'[e].tags = ExpectedTags(DefOf(e), last'.result.data)
       ELSE store'[e].tags = store[e].tags]_vars

\* a run failed on an entry that holds the tags providesTags computed from
\* the transformed data of an earlier run
C36Witness ==
  /\ last.id # 0
  /\ last.calls = 1
  /\ ~IsData(last.result)
  /\ store[last.entry].isError
  /\ DefOf(last.entry).transformResponse
  /\ store[last.entry].tags = Arr(<<TagObj("users", transformResponse(Num(1), Null))>>)

\* the entries of the runs that the step started, moved on or returned
Moved == {r.entry : r \in {x \in Live' : x \notin Live}}

\* the utilities that expire and refetch entries
Refetching == {"invalidateTags", "resetApiState", "refetchQuery"}

\* C37: a step of a pipeline run (its start, the return of its transport or
\* of a hook) changes no entry but the run's own; a step of invalidateTags,
\* resetApiState or refetchQuery leaves the mutation entry and the mutation
\* runs in flight as they were and starts no run on the mutation entry.
C37OwnEntryOnly ==
  [][/\ op'.name = "none" =>
          /\ Cardinality(Moved) <= 1
          /\ \A e \in Entries \ Moved : store'[e] = store[e]
     /\ op'.name \in Refetching =>
          /\ store'[MKey] = store[MKey]
          /\ MKey \notin {runs'[i].entry : i \in StartedOn(MKey)}
          /\ StartedOn(MKey) = {}
          /\ \A i \in 1..Len(runs) :
               runs[i].entry = MKey => runs[i] \in {runs'[j] : j \in 1..Len(runs')}
          /\ \A e \in Entries \ Registered : store'[e] = store[e]]_vars

\* resetApiState has just refetched the registered query entry next to a
\* mutation entry that holds data and is as its run left it
C37Witness ==
  /\ op.name = "resetApiState"
  /\ Registered # {}
  /\ \A e \in Registered : store[e].cashExp = 0 /\ InFlight(e) # {}
  /\ MKey \in stors
  /\ store[MKey].isSuccess
  /\ store[MKey].data = settled[MKey].data
  /\ store[MKey].cashExp = now + MutationTimeout
  /\ InFlight(MKey) = {}

\* C38 (as claimed): the data a run served from the cache returns was
\* fetched for an argument equal to the run's argument, for query entries and
\* for the mutation entry, after any sequence of successful and failed runs.
C38CacheDataForArg ==
  (last.id # 0 /\ last.isCashAvilable /\ IsData(last.result)) =>
    SerArg(last.result.data.of) = SerArg(last.arg)

\* C39 (as claimed): once a utility has expired an entry and every run on
\* the entry has settled, the data the last settle left in the entry comes
\* from a transport call issued at or after the expiry, whatever runs were in
\* flight when the entry was expired.
C39FreshAfterExpiry ==
  (last.id # 0 /\ InFlight(last.entry) = {} /\ IsData(last.result)) =>
    (~last.stale /\ store[last.entry].data = last.result.data)

\* no run on the entry is in flight and the entry is neither loading nor
\* fetching
AtRest(e) == InFlight(e) = {} => (~store[e].isLoading /\ ~store[e].isFetching)

\* C40: when every awaited hook and transport call settles, the runs in
\* flight all eventually return (a run leaves `runs` only by resolving or
\* rejecting, and never comes back), and whenever no
\* run on an entry is in flight the entry has isLoading = false and
\* isFetching = false, over every sequence of runs, refetches and expiries.
C40Terminates ==
  /\ (runs # <<>>) ~> (runs = <<>>)
  /\ [](\A e \in Entries : AtRest(e))

\* every run the bounds allow has been started, among them an expiry, all
\* have returned, the last one with fetched data through a middleware and the
\* plugin's hooks, and the entry is at rest
C40Witness ==
  /\ runs = <<>>
  /\ nruns = MaxRuns
  /\ last.pc = "done"
  /\ last.kind = "refetchQuery"
  /\ last.calls = 1
  /\ IsData(last.result)
  /\ defs.mw = <<"pass">>
  /\ HookCalls(last.trace, "afterQuery") = 1
  /\ store[last.entry].isSuccess
  /\ ~store[last.entry].isLoading
  /\ ~store[last.entry].isFetching

====
